---- MODULE Spec2Model ----
(***************************************************************************)
(* The HLS manifest tree of inputstream.adaptive: CHLSTree (the master     *)
(* playlist builder open/ParseManifest, the media playlist builder         *)
(* prepareRepresentation, the refresh entry points) and CPeriod's PSSHSet  *)
(* table.                                                                  *)
(*                                                                         *)
(* Encoding.  Strings (urls, PSSH blobs, KIDs, IVs) are natural numbers,   *)
(* 0 being the empty string.  Unsigned all-ones sentinels (NO_RANGE_VALUE, *)
(* SEGMENT_NO_NUMBER, ~0U) are -1, their two's complement image, so that   *)
(* +1 and -1 on them are the machine's; unsigned comparisons go through    *)
(* ULt.  A playlist is a sequence of lines, each line a record             *)
(* [tag, a, b, c, d, e] (Line below).  Periods live in a heap              *)
(* (tree.objs, id -> CPeriod) and m_periods is the vector of their ids, so *)
(* that CPeriod* values (m_currentPeriod, the builder's period) are ids.   *)
(*                                                                         *)
(* Threads.  The consumer's calls (open, prepareRepresentation, the moves  *)
(* of its position) are one step each.  The calls that another thread can  *)
(* meet on their way are a sequence of steps, one for each place where the *)
(* thread can wait (the mutex, a download, the renewal of the license):    *)
(* RefreshSegments of the foreground thread ("fg"), RefreshLiveSegments of *)
(* the update thread ("bg") and OnDataArrived of the thread that receives  *)
(* the segments ("data").  threads holds the owner of the tree's mutex,    *)
(* the place of each thread and the locals it keeps over its steps.        *)
(***************************************************************************)
EXTENDS Integers, Sequences, FiniteSets, TLC

VARIABLES tree, last, calls, crashed, threads

vars == <<tree, last, calls, crashed, threads>>

\* ------------------------------------------------------------------ bounds

\* calls of prepareRepresentation in a behaviour
MaxCalls == 2

\* the largest #EXT-X-DISCONTINUITY-SEQUENCE of a playlist
MaxDiscontSeq == 2

\* the largest #EXT-X-MEDIA-SEQUENCE and the most segments of a live window
MaxMediaSeq == 2

MaxSegments == 3

\* the most PSSHSets after the empty one, and the largest usage count, that
\* direct calls of InsertPSSHSet make
MaxSets == 2

MaxUsage == 2

\* --------------------------------------------------------------- constants

PSSHSET_POS_DEFAULT == 0
NO_RANGE_VALUE == -1
NO_PTS_VALUE == -1
SEGMENT_NO_NUMBER == -1
NULL == 0
TIMESCALE == 1000000
BASE_URL == 100

\* the key "0" of a PSSHSet whose key could not be fetched: its one byte
KID_0 == 48

\* ----------------------------------------------------------------- helpers

Min(S) == CHOOSE x \in S : \A y \in S : x <= y

Max(S) == CHOOSE x \in S : \A y \in S : x >= y

\* a < b on unsigned machine words, negative numbers standing for 2^w - |n|
ULt(a, b) == IF (a < 0) = (b < 0) THEN a < b ELSE b < 0

\* (a * b) / c in 64 bit unsigned arithmetic, for operands whose product fits
MulDiv(a, b, c) == IF b = c THEN a ELSE (a \div c) * b + ((a % c) * b) \div c

\* URL::IsUrlRelative / URL::Join: a relative url is below BASE_URL
IsUrlRelative(u) == u < BASE_URL

UrlJoin(base, u) == base + u

\* -------------------------------------------------------------------- lines

Line(tag, a, b, c, d, e) == [tag |-> tag, a |-> a, b |-> b, c |-> c, d |-> d, e |-> e]

L0(tag) == Line(tag, 0, 0, 0, 0, 0)

L1(tag, a) == Line(tag, a, 0, 0, 0, 0)

L2(tag, a, b) == Line(tag, a, b, 0, 0, 0)

\* a line that is not a tag (line[0] != '#'): a = the uri
IsUriLine(l) == l.tag = "URI"

\* ------------------------------------------------------------------ objects

\* CSegment()
NewCSegment ==
  [url |-> 0, startPTS_ |-> NO_PTS_VALUE, m_duration |-> 0,
   pssh_set_ |-> PSSHSET_POS_DEFAULT,
   range_begin_ |-> NO_RANGE_VALUE, range_end_ |-> NO_RANGE_VALUE]

\* CRepresentation(), with the fields the HLS builders read or write
NewCRepresentation ==
  [m_sourceUrl |-> 0, m_url |-> 0, m_timescale |-> 0,
   m_containerType |-> "NOTYPE", m_hasInitialization |-> FALSE,
   m_hasSegmentsUrl |-> FALSE, m_isDownloaded |-> FALSE,
   m_isIncludedStream |-> FALSE, m_isEnabled |-> FALSE,
   m_isWaitForSegment |-> FALSE,
   m_startNumber |-> 1, m_duration |-> 0, m_psshSetPos |-> PSSHSET_POS_DEFAULT,
   initialization_ |-> NewCSegment, timeline |-> <<>>, current_segment_ |-> NULL]

\* CAdaptationSet()
NewCAdaptationSet(streamType) ==
  [m_streamType |-> streamType, m_containerType |-> "NOTYPE", reps |-> <<>>]

\* CPeriod::PSSHSet()
NewPSSHSet ==
  [pssh_ |-> 0, defaultKID_ |-> 0, iv |-> 0, media_ |-> "NOTYPE",
   adaptation_set_ |-> 0, m_cryptoMode |-> "NONE", m_usageCount |-> 0]

\* CPeriod::CPeriod(): the list of PSSHSets starts with the empty one
NewCPeriod ==
  [m_sequence |-> 0, m_timescale |-> TIMESCALE, m_duration |-> 0,
   m_encryptionState |-> "UNENCRYPTED", m_includedStreamType |-> {},
   psshSets |-> <<NewPSSHSet>>, adps |-> <<>>]

\* ------------------------------------------------------------ CPeriod, PSSH

\* PSSHSet::operator==, used by std::find in InsertPSSHSet
PSSHSetEq(x, y) ==
  /\ x.pssh_ = y.pssh_
  /\ x.iv = y.iv
  /\ x.media_ = y.media_
  /\ x.adaptation_set_ = y.adaptation_set_
  /\ (x.defaultKID_ = y.defaultKID_ \/ x.defaultKID_ = 0 \/ y.defaultKID_ = 0)

\* InsertPSSHSet where an equal entry is always replaced by the candidate,
\* without the test of line 59 for an entry that is not in use
InsertPSSHSetOverwrite(p, cand) ==
  IF cand # <<>>
  THEN LET c == cand[1]
           found == {i \in 2..Len(p.psshSets) : PSSHSetEq(p.psshSets[i], c)}
           it == IF found = {} THEN Len(p.psshSets) + 1 ELSE Min(found)
           sets1 == IF found = {} THEN Append(p.psshSets, c)
                    ELSE [p.psshSets EXCEPT ![it] = c]
           sets2 == [sets1 EXCEPT ![it].m_usageCount = @ + 1]
       IN [period |-> [p EXCEPT !.psshSets = sets2], pos |-> it - 1]
  ELSE [period |-> [p EXCEPT !.psshSets[1].m_usageCount = @ + 1],
        pos |-> PSSHSET_POS_DEFAULT]

\* CPeriod::InsertPSSHSet(PSSHSet*): cand is <<>> (nullptr) or <<set>>;
\* the result is the period and the returned position
InsertPSSHSet(p, cand) ==
  IF cand # <<>>
  THEN LET c == cand[1]
           found == {i \in 2..Len(p.psshSets) : PSSHSetEq(p.psshSets[i], c)}
           it == IF found = {} THEN Len(p.psshSets) + 1 ELSE Min(found)
           sets1 == IF found = {} THEN Append(p.psshSets, c)
                    ELSE IF p.psshSets[it].m_usageCount = 0
                         THEN [p.psshSets EXCEPT ![it] = c]
                         ELSE p.psshSets
           sets2 == [sets1 EXCEPT ![it].m_usageCount = @ + 1]
       IN [period |-> [p EXCEPT !.psshSets = sets2], pos |-> it - 1]
  ELSE [period |-> [p EXCEPT !.psshSets[1].m_usageCount = @ + 1],
        pos |-> PSSHSET_POS_DEFAULT]

\* CPeriod::InsertPSSHSet(uint16_t): one more use of an existing set
InsertPSSHSetPos(p, pos) == [p EXCEPT !.psshSets[pos + 1].m_usageCount = @ + 1]

\* CPeriod::DecrasePSSHSetUsageCount(uint16_t)
DecrasePSSHSetUsageCount(p, pos) ==
  [p EXCEPT !.psshSets[pos + 1].m_usageCount = IF @ > 0 THEN @ - 1 ELSE @]

\* RemovePSSHSet where the loop over the representations ends at the first
\* one erased
RemovePSSHSetOnce(p, pssh_set) ==
  [p EXCEPT !.adps =
     [a \in DOMAIN p.adps |->
        [p.adps[a] EXCEPT !.reps =
           LET hit == {r \in DOMAIN p.adps[a].reps :
                         p.adps[a].reps[r].m_psshSetPos = pssh_set}
           IN IF hit = {} THEN p.adps[a].reps
              ELSE SubSeq(p.adps[a].reps, 1, Min(hit) - 1)
                     \o SubSeq(p.adps[a].reps, Min(hit) + 1, Len(p.adps[a].reps))]]]

\* CPeriod::RemovePSSHSet
RemovePSSHSet(p, pssh_set) ==
  [p EXCEPT !.adps =
     [a \in DOMAIN p.adps |->
        [p.adps[a] EXCEPT !.reps =
           SelectSeq(p.adps[a].reps, LAMBDA r : r.m_psshSetPos # pssh_set)]]]

\* CRepresentation::CopyHLSData: the rendition without its segments
RepCopyHLSData(other) ==
  [NewCRepresentation EXCEPT
     !.m_sourceUrl = other.m_sourceUrl, !.m_url = other.m_url,
     !.m_timescale = other.m_timescale,
     !.m_containerType = other.m_containerType,
     !.m_isIncludedStream = other.m_isIncludedStream,
     !.m_isEnabled = other.m_isEnabled]

\* CAdaptationSet::CopyHLSData
AdpCopyHLSData(other) ==
  [other EXCEPT !.reps = [r \in DOMAIN other.reps |-> RepCopyHLSData(other.reps[r])]]

\* CPeriod::CopyHLSData
CopyHLSData(other) ==
  [NewCPeriod EXCEPT
     !.adps = [a \in DOMAIN other.adps |-> AdpCopyHLSData(other.adps[a])],
     !.m_timescale = other.m_timescale,
     !.m_duration = other.m_duration,
     !.m_encryptionState = other.m_encryptionState,
     !.m_includedStreamType = other.m_includedStreamType]

\* ------------------------------------------------------ encryption (4.3)

\* the METHOD and KEYFORMAT attributes of a key line (a and b of the line)
KeyMethod(l) == <<"NONE", "AES-128", "SAMPLE-AES", "SAMPLE-AES-CTR", "">>[l.a + 1]

KeyFormat(l) ==
  <<"", "urn:uuid:edef8ba9-79d6-4ace-a3c8-27dcd51d21ed",
    "com.apple.streamingkeydelivery">>[l.b + 1]

\* AESDecrypter::convertIV: the hex text as 16 bytes, empty for no text
ConvertIV(hex) == IF hex = 0 THEN 0 ELSE 16 * hex

\* the KEYID attribute, 0x and 32 hex digits, as 16 bytes (lines 1116-1125)
HexKID(keyid) == 16 * keyid

\* attribs["URI"].substr(23): the text after data:text/plain;base64,
DataUriPayload(uri) == uri - 20

\* the KID inside a 68 character base64 PSSH (50 bytes decoded): the PSSH
\* blobs from 50 on are of that form
DecodedKID(pssh) == IF pssh >= 50 THEN pssh + 1 ELSE 0

\* CHLSTree::ProcessEncryption: c = URI, d = KEYID, e = IV of the line
ProcessEncryption(t, baseUrl, l) ==
  IF KeyMethod(l) = "NONE"
  THEN [tree |-> [t EXCEPT !.m_currentPssh = 0], type |-> "CLEAR"]
  ELSE IF KeyMethod(l) = "AES-128" /\ l.c # 0
  THEN [tree |-> [t EXCEPT
                    !.m_currentPssh =
                       IF IsUrlRelative(l.c) THEN UrlJoin(baseUrl, l.c) ELSE l.c,
                    !.m_currentIV = ConvertIV(l.e)],
        type |-> "AES128"]
  ELSE IF KeyFormat(l) = "urn:uuid:edef8ba9-79d6-4ace-a3c8-27dcd51d21ed" /\ l.c # 0
  THEN LET kid1 == IF l.d # 0 THEN HexKID(l.d) ELSE t.m_currentDefaultKID
           kid2 == IF kid1 = 0 /\ DecodedKID(DataUriPayload(l.c)) # 0
                   THEN DecodedKID(DataUriPayload(l.c)) ELSE kid1
       IN [tree |-> [t EXCEPT
                       !.m_currentDefaultKID = kid2,
                       !.m_currentPssh = DataUriPayload(l.c),
                       !.m_cryptoMode =
                          IF KeyMethod(l) = "SAMPLE-AES-CTR" THEN "AES_CTR"
                          ELSE IF KeyMethod(l) = "SAMPLE-AES" THEN "AES_CBC"
                          ELSE @],
           type |-> "WIDEVINE"]
  ELSE IF KeyFormat(l) = "com.apple.streamingkeydelivery"
  THEN [tree |-> t, type |-> "NOT_SUPPORTED"]
  ELSE [tree |-> t, type |-> "UNKNOWN"]

\* AdaptiveTree::InsertPsshSet: builds the candidate and interns it in the
\* period; an empty pssh counts one more use of the empty set
InsertPsshSet(t, streamType, p, adp, pssh, defaultKID, iv) ==
  IF pssh # 0
  THEN InsertPSSHSet(p, <<[NewPSSHSet EXCEPT
                             !.pssh_ = pssh, !.defaultKID_ = defaultKID, !.iv = iv,
                             !.media_ = streamType, !.adaptation_set_ = adp,
                             !.m_cryptoMode = t.m_cryptoMode]>>)
  ELSE InsertPSSHSet(p, <<>>)

\* ---------------------------------------------- media playlist builder (4.5)

\* The builder's locals are the record ps: tree is the CHLSTree being
\* changed, (period, adpSetPos, reprPos) the objects period/adp/rep point
\* to (positions count from 1), entry the caller's period (entryRep),
\* periodLost the detached period (NULL: none), freed the periods destroyed
\* so far, ret the status of an early return ("": none).  ubCrash is the
\* outcome chosen for an access outside of a vector: a crash, or the stale
\* memory read.  purges is a record of each purge, for the properties.
Per(ps) == ps.tree.objs[ps.period]

Adp(ps) == Per(ps).adps[ps.adpSetPos]

Rep(ps) == Adp(ps).reps[ps.reprPos]

SetPer(ps, p) == [ps EXCEPT !.tree.objs[ps.period] = p]

SetRep(ps, r) ==
  [ps EXCEPT !.tree.objs[ps.period].adps[ps.adpSetPos].reps[ps.reprPos] = r]

\* ParseRangeValues(text, first, second): text is len[@offset], offset < 0
\* when it is not given; first and second keep their value when not parsed
ParseRangeValues(len, offset, first, second) ==
  [ok |-> len >= 0,
   first |-> IF len >= 0 THEN len ELSE first,
   second |-> IF len >= 0 /\ offset >= 0 THEN offset ELSE second]

\* AdaptiveTree::FreeSegments: every segment gives up its use of its
\* PSSHSet, the timeline is emptied and the current segment forgotten
FreeSegments(p, adpSetPos, reprPos) ==
  LET r == p.adps[adpSetPos].reps[reprPos]
      RECURSIVE dec(_, _)
      dec(q, i) ==
        IF i > Len(r.timeline) THEN q
        ELSE dec(IF r.timeline[i].pssh_set_ < Len(q.psshSets)
                 THEN DecrasePSSHSetUsageCount(q, r.timeline[i].pssh_set_)
                 ELSE q, i + 1)
  IN [dec(p, 1) EXCEPT !.adps[adpSetPos].reps[reprPos] =
        [r EXCEPT !.timeline = <<>>, !.current_segment_ = NULL]]

\* the pssh, KID and IV of the last key line, interned in the builder's period
CurrentPsshSet(ps, streamType) ==
  InsertPsshSet(ps.tree, streamType, Per(ps), ps.adpSetPos, ps.tree.m_currentPssh,
                ps.tree.m_currentDefaultKID, ps.tree.m_currentIV)

\* CPeriod::SetEncryptionState on the builder's period
SetEncryptionState(ps, state) ==
  [ps EXCEPT !.tree.objs[ps.period].m_encryptionState = state]

\* WidevineInterned where the status follows the last key only, without
\* the test of line 273 for a status that is DRMCHANGED already
WidevineInternedLast(ps, ins) ==
  [ps EXCEPT
     !.tree.objs[ps.period] =
        [ins.period EXCEPT !.adps[ps.adpSetPos].reps[ps.reprPos].m_psshSetPos = ins.pos],
     !.currentEncryptionType = "WIDEVINE",
     !.prepareStatus =
        IF ins.period.psshSets[ins.pos + 1].m_usageCount = 1
        THEN "DRMCHANGED" ELSE "DRMUNCHANGED",
     !.interned = Append(@, ins.period.psshSets[ins.pos + 1].m_usageCount)]

\* lines 270-278: the representation takes the interned set; the status is
\* DRMCHANGED when this is the first use of the set.  interned is a record
\* of the usage count each key line left, for the properties.
WidevineInterned(ps, ins) ==
  [ps EXCEPT
     !.tree.objs[ps.period] =
        [ins.period EXCEPT !.adps[ps.adpSetPos].reps[ps.reprPos].m_psshSetPos = ins.pos],
     !.currentEncryptionType = "WIDEVINE",
     !.prepareStatus =
        IF ins.period.psshSets[ins.pos + 1].m_usageCount = 1 \/ @ = "DRMCHANGED"
        THEN "DRMCHANGED" ELSE "DRMUNCHANGED",
     !.interned = Append(@, ins.period.psshSets[ins.pos + 1].m_usageCount)]

\* lines 266-279
WidevineKey(ps) == WidevineInterned(ps, CurrentPsshSet(ps, Adp(ps).m_streamType))

\* OnKeyType where a key that is not supported is passed over as a key of
\* unknown kind is, without the case of lines 259-261
OnKeyTypePassed(ps, type) ==
  CASE type = "AES128" ->
         [ps EXCEPT !.currentEncryptionType = "AES128",
                    !.psshSetPos = PSSHSET_POS_DEFAULT]
    [] type = "WIDEVINE" -> WidevineKey(SetEncryptionState(ps, "ENCRYPTED_SUPPORTED"))
    [] OTHER -> ps

\* lines 257-285: the switch on the kind of key
OnKeyType(ps, type) ==
  CASE type = "NOT_SUPPORTED" ->
         [SetEncryptionState(ps, "ENCRYPTED") EXCEPT !.ret = "FAILURE"]
    [] type = "AES128" ->
         [ps EXCEPT !.currentEncryptionType = "AES128",
                    !.psshSetPos = PSSHSET_POS_DEFAULT]
    [] type = "WIDEVINE" -> WidevineKey(SetEncryptionState(ps, "ENCRYPTED_SUPPORTED"))
    [] OTHER -> ps

OnKeyProcessed(ps, pe) == OnKeyType([ps EXCEPT !.tree = pe.tree], pe.type)

\* lines 253-286: #EXT-X-KEY
OnExtXKey(ps, l) == OnKeyProcessed(ps, ProcessEncryption(ps.tree, ps.tree.base_url_, l))

\* lines 291-306: the URI of #EXT-X-MAP
MapUri(ps, url) ==
  [ps EXCEPT
     !.tree.objs[ps.period].adps[ps.adpSetPos].reps[ps.reprPos] =
        [@ EXCEPT !.m_hasInitialization = TRUE, !.m_containerType = "MP4"],
     !.segInitUrl = url,
     !.segInit = [@ EXCEPT !.url = url, !.startPTS_ = NO_PTS_VALUE,
                           !.pssh_set_ = PSSHSET_POS_DEFAULT],
     !.hasSegmentInit = TRUE]

\* lines 308-316: the BYTERANGE of #EXT-X-MAP
MapRange(ps, pr) ==
  [ps EXCEPT !.segInit =
     [@ EXCEPT !.range_begin_ = pr.second,
               !.range_end_ = IF pr.ok THEN pr.second + pr.first - 1 ELSE pr.first]]

MapByteRange(ps, l) ==
  IF l.b = 1
  THEN MapRange(ps, ParseRangeValues(l.c, l.d, ps.segInit.range_end_,
                                     ps.segInit.range_begin_))
  ELSE [ps EXCEPT !.segInit = [@ EXCEPT !.range_begin_ = NO_RANGE_VALUE]]

\* lines 287-317: #EXT-X-MAP, a = URI (0: no URI), b = 1 with a BYTERANGE
\* of c[@d]
OnExtXMap(ps, l) ==
  MapByteRange(IF l.a # 0
               THEN MapUri(ps, IF IsUrlRelative(l.a) THEN UrlJoin(ps.baseUrl, l.a) ELSE l.a)
               ELSE ps, l)

\* lines 318-321: #EXT-X-MEDIA-SEQUENCE
OnExtXMediaSequence(ps, l) == [ps EXCEPT !.newStartNumber = l.a]

\* lines 322-329: #EXT-X-PLAYLIST-TYPE, a = 1 for VOD
OnExtXPlaylistType(ps, l) ==
  IF l.a = 1
  THEN [ps EXCEPT !.tree = [@ EXCEPT !.m_refreshPlayList = FALSE,
                                     !.has_timeshift_buffer_ = FALSE]]
  ELSE ps

\* lines 330-337: #EXT-X-TARGETDURATION
OnExtXTargetDuration(ps, l) ==
  IF ULt(l.a * 1500, ps.tree.m_updateInterval)
  THEN [ps EXCEPT !.tree = [@ EXCEPT !.m_updateInterval = l.a * 1500]]
  ELSE ps

\* lines 338-349: #EXTINF, a = the duration in seconds
OnExtInf(ps, l) ==
  [ps EXCEPT
     !.newSegment = <<[NewCSegment EXCEPT !.startPTS_ = ps.currentSegStartPts,
                                         !.m_duration = l.a * Rep(ps).m_timescale,
                                         !.pssh_set_ = ps.psshSetPos]>>,
     !.currentSegStartPts = @ + l.a * Rep(ps).m_timescale]

\* lines 354-362: the range of the segment from the parsed length and offset
SegmentRange(seg, pr, newSegments) ==
  [seg EXCEPT
     !.range_begin_ =
        IF pr.second = NO_RANGE_VALUE
        THEN IF Len(newSegments) > 0
             THEN newSegments[Len(newSegments)].range_end_ + 1
             ELSE 0
        ELSE pr.second,
     !.range_end_ =
        pr.first + (IF pr.second = NO_RANGE_VALUE
                    THEN IF Len(newSegments) > 0
                         THEN newSegments[Len(newSegments)].range_end_ + 1
                         ELSE 0
                    ELSE pr.second)]

\* lines 350-364: #EXT-X-BYTERANGE of a[@b] with a segment begun
OnExtXByteRange(ps, l) ==
  [ps EXCEPT
     !.newSegment =
        <<SegmentRange(ps.newSegment[1],
                       ParseRangeValues(l.a, l.b, ps.newSegment[1].range_end_,
                                        ps.newSegment[1].range_begin_),
                       ps.newSegments)>>,
     !.segmentHasByteRange = TRUE]

\* DetectContainerTypeFromExt (lines 90-102)
DetectContainerTypeFromExt(extension) ==
  IF extension = "ts" THEN "TS"
  ELSE IF extension = "aac" THEN "ADTS"
  ELSE IF extension = "mp4" THEN "MP4"
  ELSE IF extension = "vtt" \/ extension = "webvtt" THEN "TEXT"
  ELSE "INVALID"

\* line.substr(line.rfind('.')) of a uri line: b names the file extension
\* (0: the line has no '.'), and the text taken starts at the '.'
UriExtension(l) == <<"", ".ts", ".aac", ".mp4", ".vtt">>[l.b + 1]

\* an access outside of a vector was made: the process ends here when the
\* outcome is a crash
Undefined(ps) == IF ps.ubCrash THEN [ps EXCEPT !.ub = TRUE, !.ret = "CRASH"]
                 ELSE [ps EXCEPT !.ub = TRUE]

\* lines 390-412: the container type for a stream type when the extension
\* tells none
ContainerFallback(byExt, streamType) ==
  IF byExt # "INVALID" THEN byExt
  ELSE IF streamType = "VIDEO" THEN "TS"
  ELSE IF streamType = "AUDIO" THEN "ADTS"
  ELSE IF streamType = "SUBTITLE" THEN "TEXT"
  ELSE "INVALID"

\* lines 369-414: the container type of the representation, from the first
\* media url
DetectContainer(ps, l) ==
  IF Rep(ps).m_containerType # "NOTYPE" THEN ps
  ELSE SetRep(ps, [Rep(ps) EXCEPT !.m_containerType =
         ContainerFallback(IF UriExtension(l) # ""
                           THEN DetectContainerTypeFromExt(UriExtension(l))
                           ELSE "INVALID",
                           Adp(ps).m_streamType)])

\* lines 422-436: the url goes to the segment, or to the representation
\* of a playlist with byte ranges when it has none yet
SegmentUrl(ps, url) ==
  IF ~ps.segmentHasByteRange
  THEN [ps EXCEPT !.newSegment = <<[ps.newSegment[1] EXCEPT !.url = url]>>]
  ELSE IF Rep(ps).m_url = 0
  THEN SetRep(ps, [Rep(ps) EXCEPT !.m_url = url])
  ELSE ps

\* lines 442-444: the first segment under a key interns the key
SegmentInterned(ps, ins) ==
  [ps EXCEPT !.tree.objs[ps.period] = ins.period,
             !.psshSetPos = ins.pos,
             !.newSegment = <<[ps.newSegment[1] EXCEPT !.pssh_set_ = ins.pos]>>]

\* lines 438-448: the segment's PSSHSet under AES-128
SegmentPssh(ps) ==
  IF ps.currentEncryptionType # "AES128" THEN ps
  ELSE IF ps.psshSetPos = PSSHSET_POS_DEFAULT
  THEN SegmentInterned(ps, CurrentPsshSet(ps, "NOTYPE"))
  ELSE IF ps.newSegment[1].pssh_set_ < Len(Per(ps).psshSets)
  THEN SetPer(ps, InsertPSSHSetPos(Per(ps), ps.newSegment[1].pssh_set_))
  ELSE Undefined(ps)

\* lines 450-451
AppendSegment(ps) ==
  IF ps.ret # "" THEN ps
  ELSE [ps EXCEPT !.newSegments = Append(@, ps.newSegment[1]), !.newSegment = <<>>]

\* lines 365-452: a uri line with a segment begun
OnUriLine(ps, l) ==
  IF Rep(ps).m_containerType = "INVALID"
  THEN [ps EXCEPT !.newSegment = <<>>]
  ELSE AppendSegment(SegmentPssh(SegmentUrl(DetectContainer(ps, l),
         IF IsUrlRelative(l.a) THEN UrlJoin(ps.baseUrl, l.a) ELSE l.a)))

\* the positions in m_periods of the periods below the discontinuity sequence
Stale(t) ==
  {i \in 1..Len(t.m_periods) : t.objs[t.m_periods[i]].m_sequence < t.m_discontSeq}

\* what is read at the vector's first place once its last element went:
\* the null of the pointer moved to periodLost, or the period destroyed
SlotAfter(t, gone, slot0) ==
  IF gone = {} THEN slot0
  ELSE IF t.m_periods[Max(gone)] = t.m_currentPeriod THEN NULL
  ELSE t.m_periods[Max(gone)]

\* lines 464-482: the periods below the new discontinuity sequence leave
\* m_periods; the current period is kept aside, the others are destroyed
Purge(ps, t, gone) ==
  [ps EXCEPT
     !.tree.m_periods = SelectSeq(t.m_periods,
                          LAMBDA id : ~(t.objs[id].m_sequence < t.m_discontSeq)),
     !.periodLost = IF \E i \in gone : t.m_periods[i] = t.m_currentPeriod
                    THEN t.m_currentPeriod ELSE @,
     !.freed = @ \cup ({t.m_periods[i] : i \in gone} \ {t.m_currentPeriod}),
     !.slot0 = SlotAfter(t, gone, @),
     !.purges = Append(@, [seq |-> t.m_discontSeq,
                           before |-> [i \in 1..Len(t.m_periods) |->
                                         [id |-> t.m_periods[i],
                                          m_sequence |-> t.objs[t.m_periods[i]].m_sequence]],
                           current |-> t.m_currentPeriod])]

PurgePeriods(ps) == Purge(ps, ps.tree, Stale(ps.tree))

\* lines 484-486: period, adp and rep are bound to the first period left.
\* With no period left m_periods[0] reads the vector's storage: the null
\* of a moved-from pointer (a crash) or the address of the period destroyed
\* last, which a crash or a read of its stale memory follows.
RebindFirst(ps) ==
  IF ps.tree.m_periods # <<>>
  THEN [ps EXCEPT !.period = ps.tree.m_periods[1]]
  ELSE IF ps.slot0 = NULL \/ ps.ubCrash
  THEN [ps EXCEPT !.ub = TRUE, !.ret = "CRASH"]
  ELSE [ps EXCEPT !.ub = TRUE, !.period = ps.slot0]

\* lines 455-459
SetDiscontSeq(ps, m) ==
  [ps EXCEPT !.tree = [@ EXCEPT !.m_discontSeq = m,
                                !.initial_sequence_ = IF @ = <<>> THEN <<m>> ELSE @,
                                !.m_hasDiscontSeq = TRUE]]

\* lines 460-462: on the first prepare the first period takes the sequence
FirstSequence(ps) ==
  IF ps.tree.m_periods = <<>> THEN [ps EXCEPT !.ub = TRUE, !.ret = "CRASH"]
  ELSE IF /\ ~ps.update
          /\ ps.tree.m_discontSeq > 0
          /\ ps.tree.objs[ps.tree.m_periods[Len(ps.tree.m_periods)]].m_sequence = 0
  THEN [ps EXCEPT !.tree.objs[ps.tree.m_periods[1]].m_sequence = ps.tree.m_discontSeq]
  ELSE ps

PurgeAndRebind(ps) == IF ps.ret # "" THEN ps ELSE RebindFirst(PurgePeriods(ps))

\* lines 453-487: #EXT-X-DISCONTINUITY-SEQUENCE
OnExtXDiscontinuitySequence(ps, l) == PurgeAndRebind(FirstSequence(SetDiscontSeq(ps, l.a)))

\* m_periods[i] (i counts from 0) as the builder reads it
PeriodAt(ps, i) ==
  IF i < Len(ps.tree.m_periods) THEN ps.tree.m_periods[i + 1]
  ELSE IF i = 0 /\ ~ps.ubCrash THEN ps.slot0
  ELSE NULL

\* the smallest id no period has and no pointer holds
FreshId(t) ==
  Min({i \in 1..(Cardinality(DOMAIN t.objs) + 2) :
         i \notin DOMAIN t.objs /\ i # t.m_currentPeriod})

\* lines 496-510: the period ends: its sequence, the durations of the
\* representation and of the period
ClosePeriod(ps) ==
  [ps EXCEPT !.tree.objs[ps.period] =
     [@ EXCEPT
        !.m_sequence = ps.tree.m_discontSeq + ps.discontCount,
        !.adps[ps.adpSetPos].reps[ps.reprPos] =
           [@ EXCEPT !.m_hasSegmentsUrl = IF ~ps.segmentHasByteRange THEN TRUE ELSE @,
                     !.m_duration = ps.currentSegStartPts - ps.newSegments[1].startPTS_],
        !.m_duration =
           IF Adp(ps).m_streamType # "SUBTITLE"
           THEN MulDiv(ps.currentSegStartPts - ps.newSegments[1].startPTS_,
                       ps.tree.objs[PeriodAt(ps, ps.discontCount)].m_timescale,
                       Rep(ps).m_timescale)
           ELSE @]]

\* lines 513-521: the timeline and the new segments change places, and so
\* do the initialization segments, the url of the map staying for the
\* next period
SwapSegments(ps, old) ==
  [ps EXCEPT
     !.tree.objs[ps.period].adps[ps.adpSetPos].reps[ps.reprPos] =
        [@ EXCEPT !.timeline = ps.newSegments,
                  !.m_startNumber = ps.newStartNumber,
                  !.initialization_ = IF ps.hasSegmentInit THEN ps.segInit ELSE @],
     !.newSegments = old.timeline,
     !.segInit = IF ps.hasSegmentInit
                 THEN [old.initialization_ EXCEPT !.url = ps.segInitUrl]
                 ELSE @]

\* lines 512-521
SwapTimeline(ps) ==
  SwapSegments(SetPer(ps, FreeSegments(Per(ps), ps.adpSetPos, ps.reprPos)),
               FreeSegments(Per(ps), ps.adpSetPos, ps.reprPos)
                 .adps[ps.adpSetPos].reps[ps.reprPos])

\* lines 524-527: a new period, copied from the current one, ends m_periods
ClonePeriod(t, newId) ==
  [t EXCEPT !.objs = [i \in DOMAIN t.objs \cup {newId} |->
                        IF i = newId THEN CopyHLSData(t.objs[t.m_currentPeriod])
                        ELSE t.objs[i]],
            !.m_periods = Append(@, newId)]

\* lines 522-536: the builder goes on in the next period
StepPeriod(ps) ==
  [ps EXCEPT
     !.tree = IF Len(@.m_periods) = ps.discontCount + 1
              THEN ClonePeriod(@, FreshId(@)) ELSE @,
     !.discontCount = @ + 1,
     !.newStartNumber = @ + Len(Rep(ps).timeline),
     !.currentSegStartPts = 0]

BindPeriod(ps) ==
  IF PeriodAt(ps, ps.discontCount) = NULL THEN [ps EXCEPT !.ub = TRUE, !.ret = "CRASH"]
  ELSE [ps EXCEPT !.period = PeriodAt(ps, ps.discontCount)]

\* lines 540-542
WidevineNextInterned(ps, ins) ==
  [ps EXCEPT !.tree.objs[ps.period] =
     [ins.period EXCEPT !.adps[ps.adpSetPos].reps[ps.reprPos].m_psshSetPos = ins.pos,
                        !.m_encryptionState = "ENCRYPTED_SUPPORTED"]]

\* EnterPeriod where the representation of the next period takes the index
\* its twin has in the caller's period, the key not being interned again
EnterPeriodCopied(ps) ==
  IF ps.ret # "" THEN ps
  ELSE IF ps.currentEncryptionType = "WIDEVINE"
  THEN SetRep(ps, [Rep(ps) EXCEPT !.m_psshSetPos =
         ps.tree.objs[ps.entry].adps[ps.adpSetPos].reps[ps.reprPos].m_psshSetPos])
  ELSE ps

\* lines 538-549: the key and the map go on in the next period
EnterPeriod(ps) ==
  IF ps.ret # "" THEN ps
  ELSE IF ps.currentEncryptionType = "WIDEVINE"
  THEN WidevineNextInterned(ps, CurrentPsshSet(ps, Adp(ps).m_streamType))
  ELSE ps

MapNext(ps) ==
  IF ps.ret = "" /\ ps.hasSegmentInit /\ ps.segInitUrl # 0
  THEN SetRep(ps, [Rep(ps) EXCEPT !.m_hasInitialization = TRUE,
                                  !.m_containerType = "MP4"])
  ELSE ps

\* OnExtXDiscontinuity where the builder steps into the next period with
\* no segment collected too
OnExtXDiscontinuityStepped(ps, l) ==
  IF ps.newSegments = <<>> THEN MapNext(EnterPeriod(BindPeriod(StepPeriod(ps))))
  ELSE IF PeriodAt(ps, ps.discontCount) = NULL THEN [ps EXCEPT !.ub = TRUE, !.ret = "CRASH"]
  ELSE MapNext(EnterPeriod(BindPeriod(StepPeriod(SwapTimeline(ClosePeriod(ps))))))

\* lines 488-550: #EXT-X-DISCONTINUITY
OnExtXDiscontinuity(ps, l) ==
  IF ps.newSegments = <<>> THEN ps
  ELSE IF PeriodAt(ps, ps.discontCount) = NULL THEN [ps EXCEPT !.ub = TRUE, !.ret = "CRASH"]
  ELSE MapNext(EnterPeriod(BindPeriod(StepPeriod(SwapTimeline(ClosePeriod(ps))))))

\* OnExtXEndList where the time-shift buffer ends and the refresh goes on
OnExtXEndListRefreshed(ps, l) ==
  [ps EXCEPT !.tree = [@ EXCEPT !.has_timeshift_buffer_ = FALSE]]

\* lines 551-555: #EXT-X-ENDLIST
OnExtXEndList(ps, l) ==
  [ps EXCEPT !.tree = [@ EXCEPT !.m_refreshPlayList = FALSE,
                                !.has_timeshift_buffer_ = FALSE]]

\* lines 241-556: one line of the child playlist
ProcessLine(ps, l) ==
  IF ~ps.isExtM3Uformat
  THEN IF l.tag = "#EXTM3U" THEN [ps EXCEPT !.isExtM3Uformat = TRUE] ELSE ps
  ELSE IF l.tag = "#EXT-X-KEY" THEN OnExtXKey(ps, l)
  ELSE IF l.tag = "#EXT-X-MAP" THEN OnExtXMap(ps, l)
  ELSE IF l.tag = "#EXT-X-MEDIA-SEQUENCE" THEN OnExtXMediaSequence(ps, l)
  ELSE IF l.tag = "#EXT-X-PLAYLIST-TYPE" THEN OnExtXPlaylistType(ps, l)
  ELSE IF l.tag = "#EXT-X-TARGETDURATION" THEN OnExtXTargetDuration(ps, l)
  ELSE IF l.tag = "#EXTINF" THEN OnExtInf(ps, l)
  ELSE IF l.tag = "#EXT-X-BYTERANGE" /\ ps.newSegment # <<>> THEN OnExtXByteRange(ps, l)
  ELSE IF ps.newSegment # <<>> /\ IsUriLine(l) THEN OnUriLine(ps, l)
  ELSE IF l.tag = "#EXT-X-DISCONTINUITY-SEQUENCE" THEN OnExtXDiscontinuitySequence(ps, l)
  ELSE IF l.tag = "#EXT-X-DISCONTINUITY" THEN OnExtXDiscontinuity(ps, l)
  ELSE IF l.tag = "#EXT-X-ENDLIST" THEN OnExtXEndList(ps, l)
  ELSE ps

\* lines 235-556: the loop over the lines, left by a return
RECURSIVE ParseLines(_, _, _)
ParseLines(ps, data, i) ==
  IF i > Len(data) \/ ps.ret # "" THEN ps
  ELSE ParseLines(ProcessLine(ps, data[i]), data, i + 1)

\* lines 598-606: every period of m_periods has the representation marked
\* downloaded once the playlist has ended
MarkDownloaded(ps) ==
  IF ~ps.tree.has_timeshift_buffer_ /\ ~ps.tree.m_refreshPlayList
  THEN [ps EXCEPT !.tree.objs =
          [id \in DOMAIN @ |->
             IF \E i \in 1..Len(ps.tree.m_periods) : ps.tree.m_periods[i] = id
             THEN [@[id] EXCEPT !.adps[ps.adpSetPos].reps[ps.reprPos].m_isDownloaded = TRUE]
             ELSE @[id]]]
  ELSE ps

\* lines 591-596: the duration of the period at discontCount
LastPeriodDuration(ps, pid) ==
  IF Adp(ps).m_streamType # "SUBTITLE"
  THEN [ps EXCEPT !.tree.objs[pid].m_duration =
          MulDiv(Rep(ps).m_duration, ps.tree.objs[pid].m_timescale, Rep(ps).m_timescale)]
  ELSE ps

\* line 600: the seconds of the periods from the i-th on
RECURSIVE PeriodsSecs(_, _)
PeriodsSecs(t, i) ==
  IF i > Len(t.m_periods) THEN 0
  ELSE t.objs[t.m_periods[i]].m_duration \div t.objs[t.m_periods[i]].m_timescale
       + PeriodsSecs(t, i + 1)

\* lines 598-600, 617-618
SumPeriods(ps) ==
  IF Adp(ps).m_streamType # "SUBTITLE"
  THEN [ps EXCEPT !.tree.m_totalTimeSecs = PeriodsSecs(ps.tree, 1)]
  ELSE ps

\* lines 608-618: a playlist with one period
SinglePeriodTime(ps) ==
  [ps EXCEPT
     !.tree.objs[ps.period].adps[ps.adpSetPos].reps[ps.reprPos].m_isDownloaded =
        IF ~ps.tree.has_timeshift_buffer_ /\ ~ps.tree.m_refreshPlayList THEN TRUE ELSE @,
     !.tree.m_totalTimeSecs =
        IF Adp(ps).m_streamType # "SUBTITLE"
        THEN Rep(ps).m_duration \div Rep(ps).m_timescale ELSE @]

\* lines 588-618: the total time and the downloaded flags
TotalTime(ps) ==
  IF ps.discontCount > 0 \/ ps.tree.m_hasDiscontSeq
  THEN IF PeriodAt(ps, ps.discontCount) = NULL
       THEN [ps EXCEPT !.ub = TRUE, !.ret = "CRASH"]
       ELSE MarkDownloaded(SumPeriods(LastPeriodDuration(ps, PeriodAt(ps, ps.discontCount))))
  ELSE SinglePeriodTime(ps)

\* lines 564-567
ReleaseTimeline(ps) ==
  SetPer(ps, FreeSegments(
    [Per(ps) EXCEPT !.adps[ps.adpSetPos].reps[ps.reprPos].m_hasSegmentsUrl =
                       IF ~ps.segmentHasByteRange THEN TRUE ELSE @],
    ps.adpSetPos, ps.reprPos))

\* lines 575-586: the representation takes the new segments
TakeSegments(ps) ==
  [ps EXCEPT !.tree.objs[ps.period] =
     [@ EXCEPT
        !.adps[ps.adpSetPos].reps[ps.reprPos] =
           [@ EXCEPT
              !.timeline = ps.newSegments,
              !.m_startNumber = ps.newStartNumber,
              !.initialization_ = IF ps.hasSegmentInit THEN ps.segInit ELSE @,
              !.m_duration = ps.currentSegStartPts - ps.newSegments[1].startPTS_],
        !.m_sequence = ps.tree.m_discontSeq + ps.discontCount]]

\* lines 569-618
CheckSegments(ps) ==
  IF ps.newSegments = <<>> THEN [ps EXCEPT !.ret = "FAILURE"]
  ELSE TotalTime(TakeSegments(ps))

\* AfterLines without the test of lines 558-562 for #EXTM3U
AfterLinesUnchecked(ps) ==
  IF ps.ret # "" THEN ps
  ELSE CheckSegments(ReleaseTimeline(ps))

\* lines 558-618: after the last line
AfterLines(ps) ==
  IF ps.ret # "" THEN ps
  ELSE IF ~ps.isExtM3Uformat THEN [ps EXCEPT !.ret = "FAILURE"]
  ELSE CheckSegments(ReleaseTimeline(ps))

\* CRepresentation::getCurrentSegmentNumber
getCurrentSegmentNumber(r) ==
  IF r.current_segment_ = NULL THEN SEGMENT_NO_NUMBER
  ELSE r.m_startNumber + (r.current_segment_ - 1)

\* CRepresentation::get_segment: the segment at a position (from 0), a
\* pointer being the segment's place in the timeline counted from 1
get_segment(r, pos) == IF pos >= 0 /\ pos < Len(r.timeline) THEN pos + 1 ELSE NULL

\* CRepresentation::get_next_segment
get_next_segment(r, seg) ==
  IF seg = NULL THEN NULL ELSE get_segment(r, seg)

\* RepositionCursor without the clamp of lines 631-635 to the last segment
RepositionCursorUnclamped(r, currentRepSegNumber) ==
  IF currentRepSegNumber = 0 \/ ULt(currentRepSegNumber, r.m_startNumber)
     \/ currentRepSegNumber = SEGMENT_NO_NUMBER
  THEN NULL
  ELSE get_segment(r, currentRepSegNumber - r.m_startNumber)

\* lines 623-638: the current segment of the refreshed representation,
\* from the number it had when the call began
RepositionCursor(r, currentRepSegNumber) ==
  IF currentRepSegNumber = 0 \/ ULt(currentRepSegNumber, r.m_startNumber)
     \/ currentRepSegNumber = SEGMENT_NO_NUMBER
  THEN NULL
  ELSE IF ~ULt(currentRepSegNumber, r.m_startNumber + Len(r.timeline))
  THEN get_segment(r, r.m_startNumber + Len(r.timeline) - 1 - r.m_startNumber)
  ELSE get_segment(r, currentRepSegNumber - r.m_startNumber)

\* lines 623-638
Repositioned(r, currentRepSegNumber) ==
  [r EXCEPT !.current_segment_ = RepositionCursor(r, currentRepSegNumber)]

\* lines 639-643: the representation waits no more when a segment follows
\* the current one or the current period is not the last
ClearWait(r, t) ==
  IF r.m_isWaitForSegment
     /\ (get_next_segment(r, r.current_segment_) # NULL
         \/ t.m_periods = <<>>
         \/ t.m_currentPeriod # t.m_periods[Len(t.m_periods)])
  THEN [r EXCEPT !.m_isWaitForSegment = FALSE]
  ELSE r

\* lines 621-646: after an update the consumer's position is restored;
\* the first call starts the update thread
AfterParse(ps, currentRepSegNumber) ==
  IF ps.ret # "" THEN ps
  ELSE IF ps.update
  THEN [ps EXCEPT
          !.tree.objs[ps.entry].adps[ps.adpSetPos].reps[ps.reprPos] =
             ClearWait(Repositioned(@, currentRepSegNumber), ps.tree),
          !.ub = @ \/ ps.entry \in ps.freed]
  ELSE [ps EXCEPT !.tree.updThread = TRUE]

\* the periods of the tree as the call ends: a period kept aside returns
\* to the front (lines 648-649) unless the call returned early, when it is
\* destroyed with the local that held it
PeriodsLeft(ps) ==
  IF ps.periodLost # NULL /\ ps.ret = ""
  THEN <<ps.periodLost>> \o ps.tree.m_periods
  ELSE ps.tree.m_periods

\* the tree as the call ends; destroyed periods leave the heap
Leave(ps, periods) ==
  [ps.tree EXCEPT
     !.m_periods = periods,
     !.objs = [id \in (IF ps.ret = "CRASH" THEN DOMAIN ps.tree.objs \ ps.freed
                       ELSE {periods[i] : i \in 1..Len(periods)})
                 |-> ps.tree.objs[id]]]

\* the builder's locals as the call begins (lines 190-231)
Locals(t, period, adpSetPos, reprPos, update, ubCrash) ==
  [tree |-> t, period |-> period, entry |-> period,
   adpSetPos |-> adpSetPos, reprPos |-> reprPos, update |-> update,
   periodLost |-> NULL, freed |-> {}, slot0 |-> NULL, ret |-> "",
   ub |-> FALSE, ubCrash |-> ubCrash, purges |-> <<>>, interned |-> <<>>,
   prepareStatus |-> "OK", baseUrl |-> BASE_URL,
   currentEncryptionType |-> "CLEAR", currentSegStartPts |-> 0,
   newStartNumber |-> 0, newSegments |-> <<>>, newSegment |-> <<>>,
   segmentHasByteRange |-> FALSE, psshSetPos |-> PSSHSET_POS_DEFAULT,
   segInit |-> NewCSegment, segInitUrl |-> 0, hasSegmentInit |-> FALSE,
   discontCount |-> 0, isExtM3Uformat |-> FALSE]

\* lines 202-619: nothing for a downloaded representation or a failed
\* download, else the playlist is parsed
Build(ps, rep, dl) ==
  IF rep.m_isDownloaded \/ dl = <<>> THEN ps
  ELSE AfterLines(ParseLines(ps, dl[1], 1))

\* what a call returns and what the properties read of it; at is the
\* period the builder is in as the call returns
Result(ps, rep, dl, n) ==
  [tree |-> Leave(ps, PeriodsLeft(ps)),
   status |-> IF ps.ret # "" THEN ps.ret ELSE ps.prepareStatus,
   info |-> [period |-> ps.entry, adp |-> ps.adpSetPos, rep |-> ps.reprPos,
             update |-> ps.update, dl |-> dl,
             parsed |-> ~rep.m_isDownloaded /\ dl # <<>>,
             n |-> n, purges |-> ps.purges, ub |-> ps.ub,
             lost |-> ps.periodLost, discontCount |-> ps.discontCount,
             interned |-> ps.interned, at |-> ps.period]]

\* lines 187-188 and 190-652 for a representation with a source url
PrepareRep(t, rep, ps, dl) ==
  IF rep.m_sourceUrl = 0
  THEN [tree |-> t, status |-> "FAILURE",
        info |-> [period |-> ps.entry, adp |-> ps.adpSetPos, rep |-> ps.reprPos,
                  update |-> ps.update, dl |-> dl, parsed |-> FALSE,
                  n |-> getCurrentSegmentNumber(rep), purges |-> <<>>, ub |-> FALSE,
                  lost |-> NULL, discontCount |-> 0, interned |-> <<>>,
                  at |-> ps.period]]
  ELSE Result(AfterParse(Build(ps, rep, dl), getCurrentSegmentNumber(rep)),
              rep, dl, getCurrentSegmentNumber(rep))

\* CHLSTree::prepareRepresentation (lines 182-652).  dl is the outcome of
\* DownloadManifest: <<>> when it failed, <<data>> with the playlist.  The
\* result carries the tree, the status and what the properties read.
prepareRepresentation(t, period, adpSetPos, reprPos, update, dl, ubCrash) ==
  PrepareRep(t, t.objs[period].adps[adpSetPos].reps[reprPos],
             Locals(t, period, adpSetPos, reprPos, update, ubCrash), dl)

\* --------------------------------------------- master playlist builder (4.4)

\* a representation as ParseManifest makes it
MasterRepresentation(sourceUrl) ==
  [NewCRepresentation EXCEPT !.m_timescale = 1000000, !.m_sourceUrl = sourceUrl]

\* AdaptiveTree::BuildDownloadUrl
BuildDownloadUrl(t, url) == IF IsUrlRelative(url) THEN UrlJoin(t.base_url_, url) ELSE url

\* the bit of m_includedStreamType for a stream type
IncludedBit(streamType) == {streamType}

\* m_extGroups[id]: the group, made empty when it is not there yet
GroupOf(st, id) == IF id \in DOMAIN st.extGroups THEN st.extGroups[id] ELSE <<>>

WithGroup(st, id, adps) ==
  [st EXCEPT !.extGroups = [g \in DOMAIN st.extGroups \cup {id} |->
                              IF g = id THEN adps ELSE st.extGroups[g]]]

\* lines 824-880: #EXT-X-MEDIA, a = TYPE (1 AUDIO, 2 SUBTITLES), b = GROUP-ID,
\* c = URI (0: none)
OnExtXMedia(st, l) ==
  IF l.a \notin {1, 2} THEN st
  ELSE
    LET streamType == IF l.a = 1 THEN "AUDIO" ELSE "SUBTITLE"
        repr == IF l.c # 0
                THEN MasterRepresentation(BuildDownloadUrl(st.tree, l.c))
                ELSE [MasterRepresentation(0) EXCEPT !.m_isIncludedStream = TRUE]
        adpSet == [NewCAdaptationSet(streamType) EXCEPT !.reps = <<repr>>]
        st1 == IF l.c # 0 THEN st
               ELSE [st EXCEPT !.period.m_includedStreamType = @ \cup IncludedBit(streamType)]
    IN WithGroup(st1, l.b, Append(GroupOf(st1, l.b), adpSet))

\* lines 881-977: #EXT-X-STREAM-INF with BANDWIDTH, b = AUDIO (0: none);
\* url is the uri of the next line, 0 when the next line is not a uri
OnExtXStreamInf(st, l, url) ==
  LET st1 == IF st.period.adps = <<>>
             THEN [st EXCEPT !.period.adps = <<NewCAdaptationSet("VIDEO")>>]
             ELSE st
      st2 == IF l.b # 0 THEN WithGroup(st1, l.b, GroupOf(st1, l.b))
             ELSE [st1 EXCEPT !.period.m_includedStreamType = @ \cup IncludedBit("AUDIO"),
                              !.createDummyAudioRepr = TRUE]
      sourceUrl == BuildDownloadUrl(st.tree, url)
      reps == st2.period.adps[1].reps
  IN IF url # 0 /\ \A i \in 1..Len(reps) : reps[i].m_sourceUrl # sourceUrl
     THEN [st2 EXCEPT !.period.adps[1].reps = Append(@, MasterRepresentation(sourceUrl))]
     ELSE st2

\* lines 978-1001: #EXTINF in the master: the manifest is a media playlist
OnMasterExtInf(st) ==
  LET adp == [NewCAdaptationSet("VIDEO") EXCEPT
                !.reps = <<MasterRepresentation(st.tree.manifest_url_)>>]
  IN [st EXCEPT !.period.adps = Append(@, adp),
                !.period.m_includedStreamType = @ \cup IncludedBit("AUDIO"),
                !.createDummyAudioRepr = TRUE,
                !.stop = TRUE]

\* lines 1002-1022: #EXT-X-SESSION-KEY
OnExtXSessionKey(st, l) ==
  LET pe == ProcessEncryption(st.tree, st.tree.base_url_, l)
  IN IF pe.type = "NOT_SUPPORTED" THEN [st EXCEPT !.tree = pe.tree, !.stop = TRUE, !.failed = TRUE]
     ELSE [st EXCEPT !.tree = pe.tree]

\* lines 806-1023: the loop over the lines of the master playlist
RECURSIVE ParseMasterLines(_, _, _)
ParseMasterLines(st, data, i) ==
  IF i > Len(data) \/ st.stop THEN st
  ELSE
    LET l == data[i]
    IN IF ~st.isExtM3Uformat
       THEN ParseMasterLines([st EXCEPT !.isExtM3Uformat = (l.tag = "#EXTM3U")], data, i + 1)
       ELSE IF l.tag = "#EXT-X-MEDIA" THEN ParseMasterLines(OnExtXMedia(st, l), data, i + 1)
       ELSE IF l.tag = "#EXT-X-STREAM-INF"
       THEN IF l.a = 0 THEN ParseMasterLines(st, data, i + 1)
            ELSE LET isUrl == i + 1 <= Len(data) /\ IsUriLine(data[i + 1])
                 IN ParseMasterLines(
                      OnExtXStreamInf(st, l, IF isUrl THEN data[i + 1].a ELSE 0),
                      data, IF isUrl THEN i + 2 ELSE i + 1)
       ELSE IF l.tag = "#EXTINF" THEN OnMasterExtInf(st)
       ELSE IF l.tag = "#EXT-X-SESSION-KEY"
       THEN ParseMasterLines(OnExtXSessionKey(st, l), data, i + 1)
       ELSE ParseMasterLines(st, data, i + 1)

\* lines 1031-1063: the audio that is part of the video stream
DummyAudio ==
  [NewCAdaptationSet("AUDIO") EXCEPT
     !.m_containerType = "MP4",
     !.reps = <<[MasterRepresentation(0) EXCEPT !.m_isIncludedStream = TRUE]>>]

\* the adaptation sets of every group, groups in the order of their ids
RECURSIVE GroupAdps(_, _)
GroupAdps(groups, ids) ==
  IF ids = {} THEN <<>>
  ELSE groups[Min(ids)] \o GroupAdps(groups, ids \ {Min(ids)})

\* lines 1025-1081: the period of the master playlist joins the tree
MasterPeriod(st, id) ==
  IF st.failed \/ ~st.isExtM3Uformat THEN [tree |-> st.tree, ok |-> FALSE]
  ELSE [tree |-> [st.tree EXCEPT
                    !.has_timeshift_buffer_ = TRUE,
                    !.objs = [i \in DOMAIN @ \cup {id} |->
                                IF i = id
                                THEN [st.period EXCEPT !.adps =
                                        @ \o (IF st.createDummyAudioRepr
                                              THEN <<DummyAudio>> ELSE <<>>)
                                          \o GroupAdps(st.extGroups, DOMAIN st.extGroups)]
                                ELSE @[i]],
                    !.m_periods = Append(@, id)],
        ok |-> TRUE]

\* CHLSTree::ParseManifest (lines 792-1082): the tree and whether it parsed
ParseManifest(t, data) ==
  MasterPeriod(
    ParseMasterLines([tree |-> t, period |-> [NewCPeriod EXCEPT !.m_timescale = 1000000],
                      extGroups |-> <<>>, createDummyAudioRepr |-> FALSE,
                      isExtM3Uformat |-> FALSE, stop |-> FALSE, failed |-> FALSE],
                     data, 1),
    FreshId(t))

\* lines 169-179: the first period is the current one
Opened(pm) ==
  IF ~pm.ok THEN pm
  ELSE IF pm.tree.m_periods = <<>> THEN [tree |-> pm.tree, ok |-> FALSE]
  ELSE [tree |-> [pm.tree EXCEPT !.m_currentPeriod = pm.tree.m_periods[1]], ok |-> TRUE]

\* CHLSTree::open (lines 150-180): dl is the outcome of DownloadManifest
open(t, url, dl) ==
  IF dl = <<>> THEN [tree |-> t, ok |-> FALSE]
  ELSE Opened(ParseManifest([t EXCEPT !.manifest_url_ = url], dl[1]))

\* ------------------------------------------------- data-arrival hook (4.8)

\* pssh.defaultKID_ of the PSSHSet at psshSet (from 0) of a period
KidOf(p, psshSet) == p.psshSets[psshSet + 1].defaultKID_

SetKid(p, psshSet, kid) == [p EXCEPT !.psshSets[psshSet + 1].defaultKID_ = kid]

\* lines 678-689: an empty key is taken from the first PSSHSet of the
\* period with the same url and a key
AdoptKid(p, psshSet) ==
  LET found == {i \in 1..Len(p.psshSets) :
                  /\ p.psshSets[i].pssh_ = p.psshSets[psshSet + 1].pssh_
                  /\ p.psshSets[i].defaultKID_ # 0}
  IN IF KidOf(p, psshSet) = 0 /\ found # {}
     THEN SetKid(p, psshSet, p.psshSets[Min(found)].defaultKID_)
     ELSE p

\* KidAfterGet where a failed GET leaves the key as it was
KidAfterGetKept(kid, ok, body) == IF ok THEN body ELSE kid

\* lines 708-718: the key after a GET, ok with the body of the answer or
\* failed
KidAfterGet(kid, ok, body) == IF ok THEN body ELSE IF kid # KID_0 THEN KID_0 ELSE kid

\* lines 712-717: after a failed GET the license is renewed when the
\* key was not "0" yet and the license key has a fifth field (token)
RenewsAfterGet(kid, ok, token) == ~ok /\ kid # KID_0 /\ token # 0

\* ------------------------------------------------------------------ inputs

\* #EXTINF:d and the uri u of a .ts file
Segment(u, d) == <<L1("#EXTINF", d), L2("URI", u, 1)>>

M3U == <<L0("#EXTM3U")>>

DiscontSeq(m) == <<L1("#EXT-X-DISCONTINUITY-SEQUENCE", m)>>

Discont == <<L0("#EXT-X-DISCONTINUITY")>>

EndList == <<L0("#EXT-X-ENDLIST")>>

\* the master playlists: two video renditions with the audio muxed in, and
\* a text that is no playlist
Masters ==
  { M3U \o <<L2("#EXT-X-STREAM-INF", 1, 0), L1("URI", 1),
             L2("#EXT-X-STREAM-INF", 1, 0), L1("URI", 2)>>,
    <<L2("#EXT-X-STREAM-INF", 1, 0), L1("URI", 1)>> }

\* a master playlist with one video rendition
SingleMasters == { M3U \o <<L2("#EXT-X-STREAM-INF", 1, 0), L1("URI", 1)>> }

\* the master playlists of the specification SpecMaster: two renditions;
\* #EXT-X-STREAM-INF without BANDWIDTH for the second rendition, for the
\* first, and for the only one; and such a tag in a text without #EXTM3U
BandwidthMasters ==
  { M3U \o <<L2("#EXT-X-STREAM-INF", 1, 0), L1("URI", 1),
             L2("#EXT-X-STREAM-INF", 1, 0), L1("URI", 2)>>,
    M3U \o <<L2("#EXT-X-STREAM-INF", 1, 0), L1("URI", 1),
             L2("#EXT-X-STREAM-INF", 0, 0), L1("URI", 2)>>,
    M3U \o <<L2("#EXT-X-STREAM-INF", 0, 0), L1("URI", 1),
             L2("#EXT-X-STREAM-INF", 1, 0), L1("URI", 2)>>,
    M3U \o <<L2("#EXT-X-STREAM-INF", 0, 0), L1("URI", 1)>>,
    <<L2("#EXT-X-STREAM-INF", 0, 0), L1("URI", 1)>> }

\* the bodies of the child playlists: no segment, one block, two blocks,
\* three blocks, a discontinuity before the first segment
Bodies ==
  { <<>>,
    Segment(1, 1),
    Segment(1, 1) \o Segment(2, 2),
    Segment(1, 1) \o Discont \o Segment(2, 2),
    Segment(2, 2) \o Discont \o Segment(3, 1),
    Segment(1, 1) \o Discont \o Segment(2, 2) \o Discont \o Segment(3, 1),
    Discont \o Segment(3, 1) }

\* the child playlists of the specification Spec: with and without a
\* discontinuity sequence, live and ended, and a text without #EXTM3U
Playlists ==
  { M3U \o b : b \in Bodies }
    \cup { M3U \o DiscontSeq(m) \o b : m \in 0..MaxDiscontSeq, b \in Bodies }
    \cup { M3U \o Segment(1, 1) \o EndList, M3U \o EndList,
           DiscontSeq(1) \o Segment(1, 1) \o EndList }

\* the child playlists of the specification SpecFormat: two playlists, and
\* texts without #EXTM3U whose tags would change the tree
FormatPlaylists ==
  { M3U \o Segment(1, 1) \o Segment(2, 2),
    M3U \o Segment(1, 1) \o Discont \o Segment(2, 2),
    Segment(3, 1),
    DiscontSeq(1) \o Segment(1, 1) \o EndList,
    <<L1("#EXT-X-MEDIA-SEQUENCE", 1), L1("#EXT-X-TARGETDURATION", 2)>>
      \o Segment(1, 1) \o Discont \o Segment(2, 2),
    <<Line("#EXT-X-KEY", 3, 1, 80, 0, 0), L1("#EXT-X-PLAYLIST-TYPE", 1),
      L2("#EXT-X-MAP", 4, 0)>> \o Segment(2, 1) }

\* k segments of one second, the segment numbered n at the uri 10 + n
RECURSIVE Window(_, _)
Window(n, k) == IF k = 0 THEN <<>> ELSE Segment(10 + n, 1) \o Window(n + 1, k - 1)

\* the child playlists of the specification SpecCursor: the sliding window
\* of a live playlist, k segments from the media sequence s on
CursorPlaylists ==
  { M3U \o <<L1("#EXT-X-MEDIA-SEQUENCE", s)>> \o Window(s, k) :
      s \in 0..MaxMediaSeq, k \in 1..MaxSegments }
    \cup { M3U \o Window(0, 2) }

\* a segment of a byte-range playlist: len bytes at the offset off of the
\* file 5, off < 0 for a range without an offset
RangeSegment(len, off) ==
  <<L1("#EXTINF", 1), L2("#EXT-X-BYTERANGE", len, off), L2("URI", 5, 3)>>

RangeLengths == {500, 1000}

RangeOffsets == {-1, 0, 2000}

\* the child playlists of the specification SpecRange: one or two segments
\* with a byte range
RangePlaylists ==
  { M3U \o RangeSegment(l, o) : l \in RangeLengths, o \in RangeOffsets }
    \cup { M3U \o RangeSegment(l1, o1) \o RangeSegment(l2, o2) :
             l1 \in RangeLengths, o1 \in RangeOffsets,
             l2 \in RangeLengths, o2 \in RangeOffsets }

\* the child playlists of the specification SpecMixed: a byte range on every
\* segment, on the second segment only, on the first only, after a
\* discontinuity, and on no segment
MixedPlaylists ==
  { M3U \o RangeSegment(500, 0) \o RangeSegment(500, -1),
    M3U \o Segment(1, 1) \o RangeSegment(500, 0),
    M3U \o RangeSegment(500, 0) \o Segment(1, 1),
    M3U \o Segment(1, 1) \o Discont \o RangeSegment(500, 0),
    M3U \o Segment(1, 1) \o Segment(2, 1) }

\* the child playlists of the specification SpecOrder: #EXTINF followed by
\* its uri, by another #EXTINF, by #EXT-X-DISCONTINUITY and then its uri, by
\* #EXT-X-BYTERANGE and then its uri, and by the end of the playlist
OrderPlaylists ==
  { M3U \o Segment(1, 1) \o Segment(2, 2) \o Segment(3, 1),
    M3U \o Segment(1, 1) \o <<L1("#EXTINF", 2)>> \o Segment(2, 1),
    M3U \o Segment(1, 1) \o <<L1("#EXTINF", 2)>> \o Discont
        \o <<L2("URI", 2, 1)>> \o Segment(3, 1),
    M3U \o Segment(1, 2) \o Discont \o Segment(2, 1) \o Segment(3, 2),
    M3U \o RangeSegment(500, 0) \o Segment(2, 2),
    M3U \o Segment(1, 1) \o <<L1("#EXTINF", 2)>> }

\* #EXT-X-KEY with METHOD (0 NONE, 1 AES-128, 2 SAMPLE-AES, 3 SAMPLE-AES-CTR),
\* KEYFORMAT (0 none, 1 Widevine, 2 FairPlay), URI, KEYID and IV
Key(method, format, uri, keyid, iv) ==
  <<Line("#EXT-X-KEY", method, format, uri, keyid, iv)>>

\* the child playlists of the specification SpecKeys: clear, under a
\* Widevine key, with and without a discontinuity, under an AES-128 key,
\* and under a FairPlay key
KeyPlaylists ==
  { M3U \o Segment(1, 1),
    M3U \o Key(3, 1, 80, 0, 0) \o Segment(1, 1),
    M3U \o Key(3, 1, 80, 0, 0) \o Segment(1, 1) \o Segment(2, 1),
    M3U \o Key(2, 1, 61, 9, 0) \o Segment(1, 1),
    M3U \o Key(3, 1, 80, 0, 0) \o Segment(1, 1) \o Key(3, 1, 80, 0, 0) \o Segment(2, 1),
    M3U \o Key(3, 1, 80, 0, 0) \o Segment(1, 1) \o Discont \o Segment(2, 1),
    M3U \o Key(1, 0, 7, 0, 3) \o Segment(1, 1) \o Segment(2, 1),
    M3U \o Key(1, 0, 7, 0, 3) \o Segment(1, 1) \o Key(1, 0, 8, 0, 0) \o Segment(2, 1),
    M3U \o Key(1, 0, 7, 0, 3) \o Segment(1, 1) \o Key(0, 0, 0, 0, 0) \o Segment(2, 1),
    M3U \o Key(2, 2, 82, 0, 0) \o Segment(1, 1) }

\* the child playlists of the specification SpecAes: clear, under one
\* AES-128 key, under two keys one after the other, a key over a
\* discontinuity, METHOD=NONE after a key, and a FairPlay key after an
\* AES-128 key
AesPlaylists ==
  { M3U \o Segment(1, 1),
    M3U \o Key(1, 0, 7, 0, 3) \o Segment(1, 1) \o Segment(2, 1),
    M3U \o Key(1, 0, 7, 0, 3) \o Segment(1, 1) \o Segment(2, 1)
        \o Key(1, 0, 8, 0, 0) \o Segment(3, 1) \o Segment(4, 1),
    M3U \o Key(1, 0, 7, 0, 3) \o Segment(1, 1) \o Discont \o Segment(2, 1),
    M3U \o Key(1, 0, 7, 0, 3) \o Segment(1, 1) \o Key(0, 0, 0, 0, 0) \o Segment(2, 1),
    M3U \o Key(1, 0, 7, 0, 3) \o Segment(1, 1) \o Key(2, 2, 82, 0, 0) \o Segment(2, 1) }

\* the child playlists of the specification SpecRemove: clear and under one
\* of two Widevine keys
PeriodPlaylists ==
  { M3U \o Segment(1, 1),
    M3U \o Key(3, 1, 80, 0, 0) \o Segment(1, 1),
    M3U \o Key(3, 1, 81, 0, 0) \o Segment(1, 1) }

\* the candidates of the direct calls of InsertPSSHSet: two PSSH blobs,
\* with a KID and without
Candidates ==
  { [NewPSSHSet EXCEPT !.pssh_ = u, !.defaultKID_ = k, !.media_ = "VIDEO",
                       !.adaptation_set_ = 1] : u \in {60, 61}, k \in {0, 9} }

\* the child playlists of the specification SpecPurge: three blocks, two
\* blocks, and one block after a discontinuity sequence of 1
PurgePlaylists ==
  { M3U \o Segment(1, 1) \o Discont \o Segment(2, 1) \o Discont \o Segment(3, 1),
    M3U \o Segment(4, 1) \o Discont \o Segment(5, 1),
    M3U \o DiscontSeq(1) \o Segment(6, 1) }

\* the child playlists of the specification SpecUnsupported: two blocks;
\* a FairPlay key before the first segment, in the second block, after a
\* discontinuity sequence, without a URI and without a METHOD; a key of
\* FairPlay's KEYFORMAT with the METHOD AES-128 and with the METHOD NONE;
\* a FairPlay key in a text without #EXTM3U; and a discontinuity sequence
\* with a segment and without
UnsupportedPlaylists ==
  { M3U \o Segment(1, 1) \o Discont \o Segment(2, 1),
    M3U \o DiscontSeq(1) \o Segment(3, 1),
    M3U \o DiscontSeq(1),
    M3U \o Key(2, 2, 82, 0, 0) \o Segment(1, 1),
    M3U \o Segment(1, 1) \o Discont \o Key(2, 2, 82, 0, 0) \o Segment(2, 1),
    M3U \o DiscontSeq(1) \o Key(2, 2, 82, 0, 0) \o Segment(1, 1),
    M3U \o Segment(1, 1) \o Key(2, 2, 0, 0, 0) \o Segment(2, 1),
    M3U \o Key(4, 2, 82, 0, 0) \o Segment(1, 1),
    M3U \o Key(1, 2, 7, 0, 0) \o Segment(1, 1),
    M3U \o Key(0, 2, 0, 0, 0) \o Segment(1, 1),
    Key(2, 2, 82, 0, 0) \o Segment(1, 1) }

\* the child playlists of the specification SpecDiscont: discontinuities
\* before the first segment, after a segment, and one after the other,
\* with a media sequence, a discontinuity sequence and an AES-128 key
DiscontPlaylists ==
  { M3U \o Segment(1, 1),
    M3U \o Discont \o Segment(3, 1),
    M3U \o Segment(1, 1) \o Discont \o Segment(2, 2),
    M3U \o Segment(1, 1) \o Discont \o Discont \o Segment(2, 2),
    M3U \o Discont \o Segment(1, 1) \o Discont \o Segment(2, 2),
    M3U \o <<L1("#EXT-X-MEDIA-SEQUENCE", 1)>> \o Discont \o Segment(1, 2)
        \o Discont \o Discont \o Segment(2, 1),
    M3U \o DiscontSeq(1) \o Discont \o Segment(1, 1) \o Discont \o Segment(2, 2),
    M3U \o Key(1, 0, 7, 0, 3) \o Discont \o Segment(1, 1),
    Discont \o M3U \o Segment(1, 1) }

\* the child playlists of the specification SpecThreads: live and clear,
\* under an AES-128 key, and ended
ThreadPlaylists ==
  { M3U \o Segment(1, 1),
    M3U \o Key(1, 0, 7, 0, 3) \o Segment(1, 1) \o Segment(2, 1),
    M3U \o Segment(1, 1) \o EndList }

\* the child playlists of the specification SpecData: one AES-128 key, the
\* same key with two IVs, two keys, and a Widevine key
DataPlaylists ==
  { M3U \o Key(1, 0, 7, 0, 3) \o Segment(1, 1),
    M3U \o Key(1, 0, 7, 0, 3) \o Segment(1, 1) \o Key(1, 0, 7, 0, 4) \o Segment(2, 1),
    M3U \o Key(1, 0, 7, 0, 3) \o Segment(1, 1) \o Key(1, 0, 8, 0, 0) \o Segment(2, 1),
    M3U \o Key(3, 1, 80, 0, 0) \o Segment(1, 1) }

\* #EXT-X-PLAYLIST-TYPE:VOD and :EVENT
PlaylistType(vod) == <<L1("#EXT-X-PLAYLIST-TYPE", vod)>>

\* the child playlists of the specification SpecLive: live, ended by
\* #EXT-X-ENDLIST, of the type VOD and of the type EVENT, ended without a
\* segment, a text without #EXTM3U that has the tag, and the tag after a
\* key that is not supported
LivePlaylists ==
  { M3U \o Segment(1, 1),
    M3U \o Segment(1, 1) \o Segment(2, 1),
    M3U \o Segment(1, 1) \o EndList,
    M3U \o PlaylistType(1) \o Segment(1, 1),
    M3U \o PlaylistType(0) \o Segment(1, 1),
    M3U \o EndList,
    Segment(1, 1) \o EndList,
    M3U \o Key(2, 2, 82, 0, 0) \o Segment(1, 1) \o EndList }

\* ------------------------------------------------------------------- state

NoInfo ==
  [period |-> NULL, adp |-> 0, rep |-> 0, update |-> FALSE, dl |-> <<>>,
   parsed |-> FALSE, n |-> 0, purges |-> <<>>, ub |-> FALSE, lost |-> NULL,
   discontCount |-> 0, interned |-> <<>>, at |-> NULL]

Threads == {"fg", "bg", "data"}

\* the locals of OnDataArrived: the index of the PSSHSet, whether the fifth
\* field of the license key is there and not empty (token), and a record
\* of the outcome of each GET and of each renewal, for the properties
NoKey == [psshSet |-> 0, token |-> 0, got |-> <<>>, renewed |-> <<>>]

\* CHLSTree(): no period yet; no thread holds the mutex
Init ==
  /\ tree = [m_periods |-> <<>>, objs |-> <<>>, m_currentPeriod |-> NULL,
             m_refreshPlayList |-> TRUE, has_timeshift_buffer_ |-> FALSE,
             m_updateInterval |-> -1, m_discontSeq |-> 0, m_hasDiscontSeq |-> FALSE,
             initial_sequence_ |-> <<>>, m_totalTimeSecs |-> 0,
             m_currentPssh |-> 0, m_currentDefaultKID |-> 0, m_currentIV |-> 0,
             m_cryptoMode |-> "NONE", updThread |-> FALSE,
             base_url_ |-> BASE_URL, manifest_url_ |-> 0]
  /\ last = [op |-> "init", status |-> "", info |-> NoInfo]
  /\ calls = 0
  /\ crashed = FALSE
  /\ threads = [owner |-> "", pc |-> [th \in Threads |-> "idle"],
                stream |-> <<>>, list |-> <<>>, key |-> NoKey]

\* the adaptation sets and representations of the current period
Streams ==
  LET p == tree.objs[tree.m_currentPeriod]
  IN {<<a, r>> : a \in DOMAIN p.adps, r \in 1..2} \cap
     UNION {{<<a, r>> : r \in DOMAIN p.adps[a].reps} : a \in DOMAIN p.adps}

CurrentValid == tree.m_currentPeriod \in DOMAIN tree.objs

Running == ~crashed /\ tree.m_periods # <<>> /\ CurrentValid

\* the outcomes of a call: where it leaves the bounds of a vector, the crash
\* and the read of stale memory
WithStale(o, period, a, r, update, dl) ==
  IF o.info.ub
  THEN {o, prepareRepresentation(tree, period, a, r, update, dl, FALSE)}
  ELSE {o}

Outcomes(period, a, r, update, dl) ==
  WithStale(prepareRepresentation(tree, period, a, r, update, dl, TRUE),
            period, a, r, update, dl)

Returned(op, o) ==
  /\ tree' = o.tree
  /\ last' = [op |-> op, status |-> o.status, info |-> o.info]
  /\ calls' = calls + 1
  /\ crashed' = (o.status = "CRASH")
  /\ UNCHANGED threads

\* open(url)
Open(masters) ==
  /\ ~crashed /\ tree.m_periods = <<>> /\ last.op = "init"
  /\ \E dl \in {<<>>} \cup {<<m>> : m \in masters} :
       /\ tree' = open(tree, BASE_URL + 1, dl).tree
       /\ last' = [op |-> "open",
                   status |-> IF tree'.m_periods # <<>> THEN "true" ELSE "false",
                   info |-> [NoInfo EXCEPT !.dl = dl]]
  /\ UNCHANGED <<calls, crashed, threads>>

\* the consumer prepares a stream of the current period:
\* prepareRepresentation(period, adp, rep, false); most is the number of
\* calls of a behaviour
PrepareWithin(playlists, most) ==
  /\ Running /\ calls < most
  /\ \E s \in Streams, dl \in {<<>>} \cup {<<d>> : d \in playlists} :
       \E o \in Outcomes(tree.m_currentPeriod, s[1], s[2], FALSE, dl) :
          Returned("prepare", o)

Prepare(playlists) == PrepareWithin(playlists, MaxCalls)

\* CHLSTree::RefreshSegments (lines 752-765)
RefreshSegmentsWithin(playlists, most) ==
  /\ Running /\ calls < most
  /\ tree.m_refreshPlayList
  /\ \E s \in Streams, dl \in {<<>>} \cup {<<d>> : d \in playlists} :
       /\ ~tree.objs[tree.m_currentPeriod].adps[s[1]].reps[s[2]].m_isIncludedStream
       /\ \E o \in Outcomes(tree.m_currentPeriod, s[1], s[2], TRUE, dl) :
            Returned("RefreshSegments", o)

RefreshSegments(playlists) == RefreshSegmentsWithin(playlists, MaxCalls)

\* the consumer moves its position in a prepared representation of the
\* current period; last keeps the status and the record of the last call
ConsumerSeek ==
  /\ Running
  /\ \E s \in Streams :
       LET r == tree.objs[tree.m_currentPeriod].adps[s[1]].reps[s[2]]
       IN \E pos \in 1..Len(r.timeline) :
            /\ r.current_segment_ # pos
            /\ tree' = [tree EXCEPT
                 !.objs[tree.m_currentPeriod].adps[s[1]].reps[s[2]].current_segment_ = pos]
  /\ last' = [last EXCEPT !.op = "seek"]
  /\ UNCHANGED <<calls, crashed, threads>>

\* the consumer reaches the end of the current period and moves to the next
ConsumerNextPeriod ==
  /\ Running
  /\ \E i \in 1..(Len(tree.m_periods) - 1) :
       /\ tree.m_periods[i] = tree.m_currentPeriod
       /\ tree' = [tree EXCEPT !.m_currentPeriod = tree.m_periods[i + 1]]
  /\ last' = [last EXCEPT !.op = "nextPeriod"]
  /\ UNCHANGED <<calls, crashed, threads>>

\* a call of CPeriod::InsertPSSHSet(PSSHSet*) on the current period, with
\* nullptr or a candidate; last keeps the table before the call, the
\* candidate and the position returned
CallInsertPSSHSet ==
  /\ Running
  /\ \E cand \in {<<>>} \cup {<<c>> : c \in Candidates} :
       /\ Len(InsertPSSHSet(tree.objs[tree.m_currentPeriod], cand).period.psshSets)
            <= MaxSets + 1
       /\ \A i \in 1..Len(tree.objs[tree.m_currentPeriod].psshSets) :
            tree.objs[tree.m_currentPeriod].psshSets[i].m_usageCount < MaxUsage
       /\ tree' = [tree EXCEPT !.objs[tree.m_currentPeriod] =
                     InsertPSSHSet(tree.objs[tree.m_currentPeriod], cand).period]
       /\ last' = [op |-> "InsertPSSHSet", status |-> "",
                   info |-> [cand |-> cand,
                             before |-> tree.objs[tree.m_currentPeriod].psshSets,
                             pos |-> InsertPSSHSet(tree.objs[tree.m_currentPeriod], cand).pos]]
  /\ UNCHANGED <<calls, crashed, threads>>

\* a call of CPeriod::DecrasePSSHSetUsageCount on the current period
CallDecrasePSSHSetUsageCount ==
  /\ Running
  /\ \E i \in 1..Len(tree.objs[tree.m_currentPeriod].psshSets) :
       /\ tree.objs[tree.m_currentPeriod].psshSets[i].m_usageCount > 0
       /\ tree' = [tree EXCEPT !.objs[tree.m_currentPeriod] =
                     DecrasePSSHSetUsageCount(tree.objs[tree.m_currentPeriod], i - 1)]
       /\ last' = [op |-> "DecrasePSSHSetUsageCount", status |-> "",
                   info |-> [pssh_set |-> i - 1]]
  /\ UNCHANGED <<calls, crashed, threads>>

\* a call of CPeriod::RemovePSSHSet on the current period
CallRemovePSSHSet ==
  /\ Running
  /\ \E i \in 0..MaxSets :
       /\ tree' = [tree EXCEPT !.objs[tree.m_currentPeriod] =
                     RemovePSSHSet(tree.objs[tree.m_currentPeriod], i)]
       /\ tree' # tree
       /\ last' = [op |-> "RemovePSSHSet", status |-> "", info |-> [pssh_set |-> i]]
  /\ UNCHANGED <<calls, crashed, threads>>

\* CanLock for a mutex that every thread can take at any time
CanLockAlways(th) == TRUE

\* std::lock_guard<TreeUpdateThread>(GetTreeUpdMutex()): the mutex of the
\* tree can be taken when no thread holds it, or by the thread that does
CanLock(th) == threads.owner \in {"", th}

Locked(th, pc) == [threads EXCEPT !.owner = th, !.pc[th] = pc]

Unlocked(th) == [threads EXCEPT !.owner = "", !.pc[th] = "idle"]

\* the consumer's prepareRepresentation(period, adp, rep, false), made
\* while no other thread holds the mutex
PrepareLocked(playlists, most) == threads.owner = "" /\ PrepareWithin(playlists, most)

\* the consumer enables a stream of the current period
ConsumerEnable ==
  /\ Running /\ threads.owner = "" /\ threads.pc["fg"] = "idle"
  /\ \E s \in Streams :
       /\ ~tree.objs[tree.m_currentPeriod].adps[s[1]].reps[s[2]].m_isEnabled
       /\ tree' = [tree EXCEPT
            !.objs[tree.m_currentPeriod].adps[s[1]].reps[s[2]].m_isEnabled = TRUE]
  /\ last' = [last EXCEPT !.op = "enable"]
  /\ UNCHANGED <<calls, crashed, threads>>

\* a step of a thread that leaves the tree as it is
Moved(th) == UNCHANGED <<tree, last, calls, crashed>>

\* what a thread's call of prepareRepresentation returned
ReturnedTo(op, o) ==
  /\ tree' = o.tree
  /\ last' = [op |-> op, status |-> o.status, info |-> o.info]
  /\ calls' = calls + 1
  /\ crashed' = (o.status = "CRASH")

\* a call that returned at once
Skipped(op) ==
  /\ last' = [op |-> op, status |-> "SKIPPED", info |-> NoInfo]
  /\ UNCHANGED <<tree, calls, crashed>>

\* the foreground thread takes the mutex of the tree for RefreshSegments
RefreshSegmentsLock ==
  /\ Running /\ threads.pc["fg"] = "idle" /\ CanLock("fg")
  /\ threads' = Locked("fg", "locked")
  /\ Moved("fg")

\* RefreshSegments of a stream of the current period, to the download of
\* the playlist (lines 757-763, 187-206)
RefreshSegmentsCall(most) ==
  /\ Running /\ threads.pc["fg"] = "locked" /\ calls < most
  /\ \E s \in Streams :
       IF /\ tree.m_refreshPlayList
          /\ ~tree.objs[tree.m_currentPeriod].adps[s[1]].reps[s[2]].m_isIncludedStream
       THEN /\ threads' = [threads EXCEPT !.pc["fg"] = "fetch", !.stream = s]
            /\ Moved("fg")
       ELSE /\ threads' = [threads EXCEPT !.pc["fg"] = "returned"]
            /\ Skipped("RefreshSegments")

\* the download ended: the rest of prepareRepresentation (lines 206-652)
RefreshSegmentsReturn(playlists) ==
  /\ Running /\ threads.pc["fg"] = "fetch"
  /\ \E dl \in {<<>>} \cup {<<d>> : d \in playlists} :
       \E o \in Outcomes(tree.m_currentPeriod, threads.stream[1], threads.stream[2],
                          TRUE, dl) :
          ReturnedTo("RefreshSegments", o)
  /\ threads' = [threads EXCEPT !.pc["fg"] = "returned", !.stream = <<>>]

RefreshSegmentsUnlock ==
  /\ threads.pc["fg"] = "returned"
  /\ threads' = Unlocked("fg")
  /\ Moved("fg")

\* the enabled representations of the current period (lines 776-785)
RefreshList(p) ==
  LET RECURSIVE reps(_, _)
      reps(a, r) ==
        IF a > Len(p.adps) THEN <<>>
        ELSE IF r > Len(p.adps[a].reps) THEN reps(a + 1, 1)
        ELSE (IF p.adps[a].reps[r].m_isEnabled THEN <<(<<a, r>>)>> ELSE <<>>)
             \o reps(a, r + 1)
  IN reps(1, 1)

\* the update thread, started by the first prepareRepresentation, takes
\* the mutex of the tree for RefreshLiveSegments
RefreshLiveSegmentsLock ==
  /\ Running /\ tree.updThread /\ threads.pc["bg"] = "idle" /\ CanLock("bg")
  /\ threads' = Locked("bg", "locked")
  /\ Moved("bg")

\* lines 771-785
RefreshLiveSegmentsCall ==
  /\ Running /\ threads.pc["bg"] = "locked"
  /\ IF ~tree.m_refreshPlayList \/ RefreshList(tree.objs[tree.m_currentPeriod]) = <<>>
     THEN /\ threads' = [threads EXCEPT !.pc["bg"] = "returned"]
          /\ Skipped("RefreshLiveSegments")
     ELSE /\ threads' = [threads EXCEPT
               !.pc["bg"] = "fetch",
               !.list = RefreshList(tree.objs[tree.m_currentPeriod])]
          /\ Moved("bg")

\* lines 786-789: the download of the playlist of the first representation
\* of the list ended, and the rest of prepareRepresentation
RefreshLiveSegmentsReturn(playlists, most) ==
  /\ Running /\ threads.pc["bg"] = "fetch" /\ calls < most
  /\ \E dl \in {<<>>} \cup {<<d>> : d \in playlists} :
       \E o \in Outcomes(tree.m_currentPeriod, threads.list[1][1], threads.list[1][2],
                          TRUE, dl) :
          ReturnedTo("RefreshLiveSegments", o)
  /\ threads' = [threads EXCEPT
       !.pc["bg"] = IF Len(threads.list) = 1 THEN "returned" ELSE "fetch",
       !.list = Tail(threads.list)]

RefreshLiveSegmentsUnlock ==
  /\ threads.pc["bg"] = "returned"
  /\ threads' = Unlocked("bg")
  /\ Moved("bg")

\* OnDataArrived for a segment with the PSSHSet psshSet, in a period that
\* is not ENCRYPTED_SUPPORTED (line 663)
OnDataArrivedCall ==
  /\ Running /\ threads.pc["data"] = "idle"
  /\ tree.objs[tree.m_currentPeriod].m_encryptionState # "ENCRYPTED_SUPPORTED"
  /\ \E psshSet \in 1..(MaxSets + 1), token \in {0, 1} :
       threads' = [threads EXCEPT !.pc["data"] = "wait",
                                  !.key = [NoKey EXCEPT !.psshSet = psshSet,
                                                        !.token = token]]
  /\ Moved("data")

\* line 665
OnDataArrivedLock ==
  /\ threads.pc["data"] = "wait" /\ CanLock("data")
  /\ threads' = Locked("data", "locked")
  /\ Moved("data")

\* what OnDataArrived leaves for the properties as it returns
DataReturned(status) ==
  /\ last' = [op |-> "OnDataArrived", status |-> status, info |-> threads.key]
  /\ UNCHANGED <<calls, crashed>>

\* lines 667-691: the index is checked, and an empty key is looked for in
\* the PSSHSets of the period
OnDataArrivedResolve ==
  /\ Running /\ threads.pc["data"] = "locked"
  /\ IF threads.key.psshSet >= Len(tree.objs[tree.m_currentPeriod].psshSets)
     THEN /\ threads' = Unlocked("data")
          /\ DataReturned("ERROR")
          /\ UNCHANGED tree
     ELSE /\ tree' = [tree EXCEPT !.objs[tree.m_currentPeriod] =
                        AdoptKid(@, threads.key.psshSet)]
          /\ threads' = [threads EXCEPT !.pc["data"] =
               IF KidOf(AdoptKid(tree.objs[tree.m_currentPeriod], threads.key.psshSet),
                        threads.key.psshSet) = 0
               THEN "get" ELSE "resolved"]
          /\ UNCHANGED <<last, calls, crashed>>

\* the bodies a key server answers with
KeyBodies == {0, 200}

\* lines 693-715: the GET of the key ended
OnDataArrivedGet ==
  /\ Running /\ threads.pc["data"] = "get"
  /\ \E ok \in BOOLEAN, body \in KeyBodies :
       /\ tree' = [tree EXCEPT !.objs[tree.m_currentPeriod] =
            SetKid(@, threads.key.psshSet,
                   KidAfterGet(KidOf(@, threads.key.psshSet), ok, body))]
       /\ threads' = [threads EXCEPT
            !.key.got = Append(@, ok),
            !.pc["data"] =
               IF RenewsAfterGet(KidOf(tree.objs[tree.m_currentPeriod], threads.key.psshSet),
                                 ok, threads.key.token)
               THEN "renew" ELSE "resolved"]
  /\ UNCHANGED <<last, calls, crashed>>

\* lines 716-717: RenewLicense ended; the GET is made again when it
\* returned true
OnDataArrivedRenew ==
  /\ threads.pc["data"] = "renew"
  /\ \E ok \in BOOLEAN :
       threads' = [threads EXCEPT !.key.renewed = Append(@, ok),
                                  !.pc["data"] = IF ok THEN "get" ELSE "resolved"]
  /\ Moved("data")

\* lines 721-745: zeros for a key "0", else the decrypted data; the mutex
\* is given back
OnDataArrivedReturn ==
  /\ Running /\ threads.pc["data"] = "resolved"
  /\ threads' = Unlocked("data")
  /\ DataReturned(IF KidOf(tree.objs[tree.m_currentPeriod], threads.key.psshSet) = KID_0
                  THEN "ZEROS" ELSE "DECRYPTED")
  /\ UNCHANGED tree

Next ==
  \/ Open(Masters)
  \/ Prepare(Playlists)
  \/ RefreshSegments(Playlists)
  \/ ConsumerSeek
  \/ ConsumerNextPeriod

Spec == Init /\ [][Next]_vars

\* playlists and texts that are no playlists
NextFormat ==
  \/ Open(SingleMasters)
  \/ Prepare(FormatPlaylists)
  \/ RefreshSegments(FormatPlaylists)
  \/ ConsumerSeek
  \/ ConsumerNextPeriod

SpecFormat == Init /\ [][NextFormat]_vars

\* a live playlist whose window slides
NextCursor ==
  \/ Open(SingleMasters)
  \/ Prepare(CursorPlaylists)
  \/ RefreshSegments(CursorPlaylists)
  \/ ConsumerSeek

SpecCursor == Init /\ [][NextCursor]_vars

\* a playlist of byte ranges
NextRange ==
  \/ Open(Masters)
  \/ Prepare(RangePlaylists)
  \/ RefreshSegments(RangePlaylists)
  \/ ConsumerSeek

SpecRange == Init /\ [][NextRange]_vars

\* playlists where some segments have a byte range and some have not
NextMixed ==
  \/ Open(SingleMasters)
  \/ Prepare(MixedPlaylists)
  \/ RefreshSegments(MixedPlaylists)
  \/ ConsumerSeek
  \/ ConsumerNextPeriod

SpecMixed == Init /\ [][NextMixed]_vars

\* playlists whose lines come in different orders
NextOrder ==
  \/ Open(SingleMasters)
  \/ Prepare(OrderPlaylists)
  \/ RefreshSegments(OrderPlaylists)
  \/ ConsumerSeek
  \/ ConsumerNextPeriod

SpecOrder == Init /\ [][NextOrder]_vars

\* playlists under AES-128 keys
NextAes ==
  \/ Open(Masters)
  \/ Prepare(AesPlaylists)
  \/ RefreshSegments(AesPlaylists)
  \/ ConsumerSeek
  \/ ConsumerNextPeriod

SpecAes == Init /\ [][NextAes]_vars

\* the table of PSSHSets of a period under direct calls
NextInsert ==
  \/ Open(SingleMasters)
  \/ CallInsertPSSHSet
  \/ CallDecrasePSSHSetUsageCount

SpecInsert == Init /\ [][NextInsert]_vars

\* representations that took their keys, and direct calls of RemovePSSHSet
NextRemove ==
  \/ Open(Masters)
  \/ Prepare(PeriodPlaylists)
  \/ CallRemovePSSHSet

SpecRemove == Init /\ [][NextRemove]_vars

\* a consumer that goes through the periods of a live playlist, with one
\* call more than MaxCalls
NextPurge ==
  \/ Open(SingleMasters)
  \/ PrepareWithin(PurgePlaylists, MaxCalls + 1)
  \/ RefreshSegmentsWithin(PurgePlaylists, MaxCalls + 1)
  \/ ConsumerNextPeriod

SpecPurge == Init /\ [][NextPurge]_vars

\* the three threads on one tree
NextThreads ==
  \/ Open(SingleMasters)
  \/ PrepareLocked(ThreadPlaylists, MaxCalls)
  \/ ConsumerEnable
  \/ RefreshSegmentsLock
  \/ RefreshSegmentsCall(MaxCalls)
  \/ RefreshSegmentsReturn(ThreadPlaylists)
  \/ RefreshSegmentsUnlock
  \/ RefreshLiveSegmentsLock
  \/ RefreshLiveSegmentsCall
  \/ RefreshLiveSegmentsReturn(ThreadPlaylists, MaxCalls + 1)
  \/ RefreshLiveSegmentsUnlock
  \/ OnDataArrivedCall
  \/ OnDataArrivedLock
  \/ OnDataArrivedResolve
  \/ OnDataArrivedGet
  \/ OnDataArrivedRenew
  \/ OnDataArrivedReturn

SpecThreads == Init /\ [][NextThreads]_vars

\* the keys of AES-128 segments, fetched as the segments arrive
NextData ==
  \/ Open(SingleMasters)
  \/ PrepareLocked(DataPlaylists, MaxCalls)
  \/ OnDataArrivedCall
  \/ OnDataArrivedLock
  \/ OnDataArrivedResolve
  \/ OnDataArrivedGet
  \/ OnDataArrivedRenew
  \/ OnDataArrivedReturn

\* a download and a renewal of the license come to an end, and the thread
\* that receives the segments goes on
SpecData ==
  /\ Init /\ [][NextData]_vars
  /\ WF_vars(OnDataArrivedLock)
  /\ WF_vars(OnDataArrivedResolve)
  /\ WF_vars(OnDataArrivedGet)
  /\ WF_vars(OnDataArrivedRenew)
  /\ WF_vars(OnDataArrivedReturn)

\* live playlists that end
NextLive ==
  \/ Open(Masters)
  \/ PrepareLocked(LivePlaylists, MaxCalls + 1)
  \/ ConsumerEnable
  \/ RefreshSegmentsLock
  \/ RefreshSegmentsCall(MaxCalls + 1)
  \/ RefreshSegmentsReturn(LivePlaylists)
  \/ RefreshSegmentsUnlock
  \/ RefreshLiveSegmentsLock
  \/ RefreshLiveSegmentsCall
  \/ RefreshLiveSegmentsReturn(LivePlaylists, MaxCalls + 1)
  \/ RefreshLiveSegmentsUnlock

SpecLive == Init /\ [][NextLive]_vars

\* master playlists whose renditions lack attributes
NextMaster ==
  \/ Open(BandwidthMasters)
  \/ Prepare(FormatPlaylists)
  \/ RefreshSegments(FormatPlaylists)
  \/ ConsumerSeek
  \/ ConsumerNextPeriod

SpecMaster == Init /\ [][NextMaster]_vars

\* playlists with keys that are not supported
NextUnsupported ==
  \/ Open(Masters)
  \/ Prepare(UnsupportedPlaylists)
  \/ RefreshSegments(UnsupportedPlaylists)
  \/ ConsumerNextPeriod

SpecUnsupported == Init /\ [][NextUnsupported]_vars

\* playlists with discontinuities where no segment was collected
NextDiscont ==
  \/ Open(Masters)
  \/ Prepare(DiscontPlaylists)
  \/ RefreshSegments(DiscontPlaylists)
  \/ ConsumerNextPeriod

SpecDiscont == Init /\ [][NextDiscont]_vars

\* playlists with keys
NextKeys ==
  \/ Open(Masters)
  \/ Prepare(KeyPlaylists)
  \/ RefreshSegments(KeyPlaylists)
  \/ ConsumerSeek
  \/ ConsumerNextPeriod

SpecKeys == Init /\ [][NextKeys]_vars


\* --------------------------------------------------------------- properties

\* last.op after a call of prepareRepresentation
PrepareOps == {"prepare", "RefreshSegments"}

\* the statuses of a call that went to its end
Success == {"OK", "DRMCHANGED", "DRMUNCHANGED"}

HasExtM3U(data) == \E i \in 1..Len(data) : data[i].tag = "#EXTM3U"

HasSegment(data) == \E i \in 1..Len(data) : data[i].tag = "URI"

\* the representation a call was made for, in a tree
EntryRep(t, info) == t.objs[info.period].adps[info.adp].reps[info.rep]

\* what the tree holds of the manifest: all of it but the update thread
Manifest(t) == [t EXCEPT !.updThread = FALSE]

InPeriods(t, id) == \E i \in 1..Len(t.m_periods) : t.m_periods[i] = id

\* C1: a call that parsed a playlist without #EXTM3U returns FAILURE and
\* leaves the whole tree as it was, for update = false and update = true.
C1_NoExtM3U ==
  [][(/\ last'.op \in PrepareOps
      /\ last'.info.parsed
      /\ ~HasExtM3U(last'.info.dl[1]))
     => (last'.status = "FAILURE" /\ tree' = tree)]_vars

\* a refresh of a representation with segments got a text without #EXTM3U
C1_Witness ==
  /\ last.op = "RefreshSegments"
  /\ last.info.parsed
  /\ ~HasExtM3U(last.info.dl[1])
  /\ HasSegment(last.info.dl[1])
  /\ last.status = "FAILURE"
  /\ EntryRep(tree, last.info).timeline # <<>>

\* C2: a call that parsed a playlist with #EXTM3U and no segment returns
\* FAILURE and leaves the manifest data of the tree (timelines, start
\* numbers, initialization segments, PSSH usage, periods, flags) as it was.
C2_NoSegment ==
  [][(/\ last'.op \in PrepareOps
      /\ last'.info.parsed
      /\ HasExtM3U(last'.info.dl[1])
      /\ ~HasSegment(last'.info.dl[1]))
     => (last'.status = "FAILURE" /\ Manifest(tree') = Manifest(tree))]_vars

\* C3: a call whose download failed returns FAILURE and leaves the manifest
\* data of the tree as it was, for update = false and update = true.
C3_DownloadFailed ==
  [][(/\ last'.op \in PrepareOps
      /\ last'.info.dl = <<>>
      /\ EntryRep(tree, last'.info).m_sourceUrl # 0
      /\ ~EntryRep(tree, last'.info).m_isDownloaded)
     => (last'.status = "FAILURE" /\ Manifest(tree') = Manifest(tree))]_vars

\* C4: when a call that met #EXT-X-DISCONTINUITY-SEQUENCE:M returns, the
\* periods that had a sequence below M are gone, but for the current one,
\* which is alive and first in m_periods, and the other periods are kept.
C4_PurgeExact ==
  (last.op \in PrepareOps /\ last.status # "CRASH") =>
    \A k \in 1..Len(last.info.purges) :
      \A i \in 1..Len(last.info.purges[k].before) :
        IF last.info.purges[k].before[i].m_sequence < last.info.purges[k].seq
        THEN IF last.info.purges[k].before[i].id = last.info.purges[k].current
             THEN /\ last.info.purges[k].current \in DOMAIN tree.objs
                  /\ tree.m_periods # <<>>
                  /\ tree.m_periods[1] = last.info.purges[k].current
             ELSE ~InPeriods(tree, last.info.purges[k].before[i].id)
        ELSE InPeriods(tree, last.info.purges[k].before[i].id)

\* C5: after every call the sequences of m_periods do not decrease.
C5_Sorted ==
  ~crashed =>
    \A i \in 1..(Len(tree.m_periods) - 1) :
      tree.objs[tree.m_periods[i]].m_sequence
        <= tree.objs[tree.m_periods[i + 1]].m_sequence

\* the urls of the segments of a playlist, one sequence for each block
\* between the #EXT-X-DISCONTINUITY tags that follow a segment
RECURSIVE BlocksFrom(_, _, _, _)
BlocksFrom(data, i, done, cur) ==
  IF i > Len(data) THEN Append(done, cur)
  ELSE IF data[i].tag = "URI"
  THEN BlocksFrom(data, i + 1, done, Append(cur, UrlJoin(BASE_URL, data[i].a)))
  ELSE IF data[i].tag = "#EXT-X-DISCONTINUITY" /\ cur # <<>>
  THEN BlocksFrom(data, i + 1, Append(done, cur), <<>>)
  ELSE BlocksFrom(data, i + 1, done, cur)

Blocks(data) == BlocksFrom(data, 1, <<>>, <<>>)

Urls(timeline) == [i \in 1..Len(timeline) |-> timeline[i].url]

\* C6: after a call that parsed a playlist of d + 1 blocks there are at
\* least d + 1 periods, and the i-th block is the timeline of the
\* representation at the caller's place in the i-th period.
C6_Blocks ==
  (last.op \in PrepareOps /\ last.info.parsed /\ last.status \in Success) =>
    /\ Len(tree.m_periods) >= Len(Blocks(last.info.dl[1]))
    /\ \A i \in 1..Len(Blocks(last.info.dl[1])) :
         Urls(tree.objs[tree.m_periods[i]].adps[last.info.adp].reps[last.info.rep].timeline)
           = Blocks(last.info.dl[1])[i]

\* C7: after a refresh that went to its end, with n the number of the
\* current segment when the call began, s the start number and k the
\* number of segments after it: the current segment is null when n = 0,
\* n < s or n = SEGMENT_NO_NUMBER, the last segment when n >= s + k, and
\* the segment at the position n - s otherwise.
C7_Cursor ==
  (last.op = "RefreshSegments" /\ last.status \in Success) =>
    EntryRep(tree, last.info).current_segment_ =
      IF \/ last.info.n = 0
         \/ last.info.n = SEGMENT_NO_NUMBER
         \/ last.info.n < EntryRep(tree, last.info).m_startNumber
      THEN NULL
      ELSE IF last.info.n >= EntryRep(tree, last.info).m_startNumber
                               + Len(EntryRep(tree, last.info).timeline)
      THEN Len(EntryRep(tree, last.info).timeline)
      ELSE last.info.n - EntryRep(tree, last.info).m_startNumber + 1

\* the window slid by one segment under a consumer at its third segment
C7_Witness ==
  /\ last.op = "RefreshSegments"
  /\ last.status = "OK"
  /\ last.info.parsed
  /\ last.info.n = 2
  /\ EntryRep(tree, last.info).m_startNumber = 1
  /\ Len(EntryRep(tree, last.info).timeline) = 3
  /\ EntryRep(tree, last.info).current_segment_ = 2

\* C8: a refresh with the playlist of the call before it, on the same
\* representation, keeps the start number, the number of segments and the
\* current segment, the first segment of a playlist of media sequence 0
\* included.
C8_SameCursor ==
  [][(/\ last.op \in PrepareOps \cup {"seek"}
      /\ last.info.parsed
      /\ last.status \in Success
      /\ last'.op = "RefreshSegments"
      /\ last'.info.parsed
      /\ last'.status \in Success
      /\ last'.info.dl = last.info.dl
      /\ last'.info.period = last.info.period
      /\ last'.info.adp = last.info.adp
      /\ last'.info.rep = last.info.rep)
     => (/\ EntryRep(tree', last'.info).m_startNumber
              = EntryRep(tree, last'.info).m_startNumber
         /\ Len(EntryRep(tree', last'.info).timeline)
              = Len(EntryRep(tree, last'.info).timeline)
         /\ EntryRep(tree', last'.info).current_segment_
              = EntryRep(tree, last'.info).current_segment_)]_vars

\* C9: a call that parses the playlist the call before it parsed, for the
\* same representation, leaves the manifest data of the tree as it was:
\* periods, sequences, segments, start numbers, PSSHSets with their usage
\* counts and the flags of the tree.
C9_Idempotent ==
  [][(/\ last.op \in PrepareOps
      /\ last.info.parsed
      /\ last.status \in Success
      /\ last'.op \in PrepareOps
      /\ last'.info.parsed
      /\ last'.status \in Success
      /\ last'.info.dl = last.info.dl
      /\ last'.info.period = last.info.period
      /\ last'.info.adp = last.info.adp
      /\ last'.info.rep = last.info.rep)
     => Manifest(tree') = Manifest(tree)]_vars

\* the len and offset of the #EXT-X-BYTERANGE tags of a playlist
ByteRanges(data) == SelectSeq(data, LAMBDA l : l.tag = "#EXT-X-BYTERANGE")

\* C10: after a call that parsed a playlist of byte ranges len[@offset],
\* a segment begins at its offset, or after the end of the segment before
\* it (at 0 for the first), and ends at begin + len - 1: 1000@0 then 1000
\* are the segments [0..999] and [1000..1999].
C10_ByteRange ==
  (last.op \in PrepareOps /\ last.info.parsed /\ last.status \in Success) =>
    \A i \in 1..Len(EntryRep(tree, last.info).timeline) :
      /\ EntryRep(tree, last.info).timeline[i].range_begin_ =
           IF ByteRanges(last.info.dl[1])[i].b >= 0
           THEN ByteRanges(last.info.dl[1])[i].b
           ELSE IF i = 1 THEN 0
           ELSE EntryRep(tree, last.info).timeline[i - 1].range_end_ + 1
      /\ EntryRep(tree, last.info).timeline[i].range_end_ =
           EntryRep(tree, last.info).timeline[i].range_begin_
             + ByteRanges(last.info.dl[1])[i].a - 1

HasByteRange(data) == \E i \in 1..Len(data) : data[i].tag = "#EXT-X-BYTERANGE"

\* C11: after a call that parsed a playlist with an #EXT-X-BYTERANGE tag,
\* the representation has a url, no segment of its timeline has a url of
\* its own, and every segment has range_begin_ <= range_end_.
C11_SingleUrl ==
  (/\ last.op \in PrepareOps
   /\ last.info.parsed
   /\ last.status \in Success
   /\ HasByteRange(last.info.dl[1]))
  => /\ EntryRep(tree, last.info).m_url # 0
     /\ \A k \in 1..Len(EntryRep(tree, last.info).timeline) :
          /\ EntryRep(tree, last.info).timeline[k].url = 0
          /\ ~ULt(EntryRep(tree, last.info).timeline[k].range_end_,
                  EntryRep(tree, last.info).timeline[k].range_begin_)

\* the representations of a tree: period, adaptation set and place
AllReps(t) ==
  {<<t.m_periods[i], a, r>> : i \in 1..Len(t.m_periods), a \in 1..3, r \in 1..2}
    \cap UNION {UNION {{<<id, a, r>> : r \in DOMAIN t.objs[id].adps[a].reps}
                        : a \in DOMAIN t.objs[id].adps}
                 : id \in DOMAIN t.objs}

\* C12: in every timeline a segment starts where the segment before it
\* ends, startPTS_[i + 1] = startPTS_[i] + m_duration[i], and startPTS_
\* increases strictly.
C12_Contiguous ==
  ~crashed =>
    \A x \in AllReps(tree) :
      \A i \in 1..(Len(tree.objs[x[1]].adps[x[2]].reps[x[3]].timeline) - 1) :
        /\ tree.objs[x[1]].adps[x[2]].reps[x[3]].timeline[i + 1].startPTS_
             = tree.objs[x[1]].adps[x[2]].reps[x[3]].timeline[i].startPTS_
               + tree.objs[x[1]].adps[x[2]].reps[x[3]].timeline[i].m_duration
        /\ tree.objs[x[1]].adps[x[2]].reps[x[3]].timeline[i + 1].startPTS_
             > tree.objs[x[1]].adps[x[2]].reps[x[3]].timeline[i].startPTS_

\* the key lines of a playlist that ProcessEncryption takes for Widevine
WidevineKeys(data) ==
  SelectSeq(data, LAMBDA l : /\ l.tag = "#EXT-X-KEY"
                             /\ KeyMethod(l) \notin {"NONE", "AES-128"}
                             /\ KeyFormat(l) = "urn:uuid:edef8ba9-79d6-4ace-a3c8-27dcd51d21ed"
                             /\ l.c # 0)

\* the PSSHSets in use of a period that are not the empty first one
SetsInUse(p) == {i \in 2..Len(p.psshSets) : p.psshSets[i].m_usageCount > 0}

\* C13: a call that went to its end on a playlist with Widevine key lines
\* returns DRMCHANGED when one of them left a PSSHSet with the usage count
\* 1 and DRMUNCHANGED when none did; and when the call before it returned
\* DRMCHANGED for another representation of the adaptation set with the
\* same playlist of one key, in a period with no other set, this call
\* returns DRMUNCHANGED and the period has one set, of usage count 2.
C13_DrmStatus ==
  [][(/\ last'.op \in PrepareOps
      /\ last'.info.parsed
      /\ last'.status \in Success
      /\ WidevineKeys(last'.info.dl[1]) # <<>>)
     => /\ Len(last'.info.interned) = Len(WidevineKeys(last'.info.dl[1]))
        /\ last'.status =
             IF \E k \in 1..Len(last'.info.interned) : last'.info.interned[k] = 1
             THEN "DRMCHANGED" ELSE "DRMUNCHANGED"
        /\ (/\ last.info.parsed
            /\ last.status = "DRMCHANGED"
            /\ last.info.dl = last'.info.dl
            /\ Len(WidevineKeys(last.info.dl[1])) = 1
            /\ last.info.period = last'.info.period
            /\ last.info.adp = last'.info.adp
            /\ last.info.rep # last'.info.rep
            /\ Len(tree.objs[last.info.period].psshSets) = 2
            /\ tree.objs[last.info.period].psshSets[2].m_usageCount = 1)
           => /\ last'.status = "DRMUNCHANGED"
              /\ Len(tree'.objs[last.info.period].psshSets) = 2
              /\ tree'.objs[last.info.period].psshSets[2].m_usageCount = 2]_vars

\* two representations of the adaptation set took the same Widevine key:
\* the second call returned DRMUNCHANGED and the set has the usage count 2
C13_Witness ==
  /\ last.op = "prepare"
  /\ last.status = "DRMUNCHANGED"
  /\ last.info.interned = <<2>>
  /\ Len(tree.objs[last.info.period].psshSets) = 2
  /\ tree.objs[last.info.period].psshSets[2].m_usageCount = 2
  /\ tree.objs[last.info.period].adps[last.info.adp].reps[1].m_psshSetPos = 1
  /\ tree.objs[last.info.period].adps[last.info.adp].reps[2].m_psshSetPos = 1

\* the segments of a period that refer to the PSSHSet i (from 0):
\* adaptation set, representation and place in the timeline
SegmentsOf(p, i) ==
  UNION {UNION {{<<a, r, k>> : k \in {k \in DOMAIN p.adps[a].reps[r].timeline :
                                        p.adps[a].reps[r].timeline[k].pssh_set_ = i}}
                : r \in DOMAIN p.adps[a].reps}
         : a \in DOMAIN p.adps}

\* C14: after every call, the usage count of every PSSHSet of a period of
\* m_periods is the number of segments of the period that refer to it
\* (no key line interns a set in playlists without Widevine keys: an
\* AES-128 key is interned by its segments), the empty first set included.
C14_Usage ==
  ~crashed =>
    \A n \in 1..Len(tree.m_periods) :
      \A i \in 1..Len(tree.objs[tree.m_periods[n]].psshSets) :
        tree.objs[tree.m_periods[n]].psshSets[i].m_usageCount
          = Cardinality(SegmentsOf(tree.objs[tree.m_periods[n]], i - 1))

\* C15: every period has the empty PSSHSet at the first place, and its
\* usage count is the number of segments of the period with pssh_set_ = 0.
C15_Sentinel ==
  ~crashed =>
    \A id \in DOMAIN tree.objs :
      /\ Len(tree.objs[id].psshSets) >= 1
      /\ tree.objs[id].psshSets[1].pssh_ = 0
      /\ tree.objs[id].psshSets[1].m_usageCount
           = Cardinality(SegmentsOf(tree.objs[id], PSSHSET_POS_DEFAULT))

Used(c) == [c EXCEPT !.m_usageCount = @ + 1]

\* the places (from 1) of the entries after the first that equal a candidate
EqualTo(sets, c) == {i \in 2..Len(sets) : PSSHSetEq(sets[i], c)}

\* C17: a call of InsertPSSHSet with nullptr adds one to the usage count
\* of PSSHSets[0] and returns 0; with a candidate it returns the index
\* (>= 1) of the first equal entry after PSSHSets[0], or of the candidate
\* appended when there is none; that entry is the candidate when it was
\* appended or when the entry found had the usage count 0, its usage
\* count is one more, and every other entry is where and as it was.
C17_Insert ==
  [][(last'.op = "InsertPSSHSet") =>
       /\ tree'.objs[tree.m_currentPeriod].adps = tree.objs[tree.m_currentPeriod].adps
       /\ IF last'.info.cand = <<>>
          THEN /\ last'.info.pos = 0
               /\ tree'.objs[tree.m_currentPeriod].psshSets
                    = [tree.objs[tree.m_currentPeriod].psshSets
                         EXCEPT ![1].m_usageCount = @ + 1]
          ELSE /\ last'.info.pos >= 1
               /\ \A i \in 1..Len(tree.objs[tree.m_currentPeriod].psshSets) :
                    i # last'.info.pos + 1 =>
                      tree'.objs[tree.m_currentPeriod].psshSets[i]
                        = tree.objs[tree.m_currentPeriod].psshSets[i]
               /\ IF EqualTo(tree.objs[tree.m_currentPeriod].psshSets,
                             last'.info.cand[1]) = {}
                  THEN /\ last'.info.pos = Len(tree.objs[tree.m_currentPeriod].psshSets)
                       /\ tree'.objs[tree.m_currentPeriod].psshSets
                            = Append(tree.objs[tree.m_currentPeriod].psshSets,
                                     Used(last'.info.cand[1]))
                  ELSE /\ last'.info.pos + 1
                            = Min(EqualTo(tree.objs[tree.m_currentPeriod].psshSets,
                                          last'.info.cand[1]))
                       /\ Len(tree'.objs[tree.m_currentPeriod].psshSets)
                            = Len(tree.objs[tree.m_currentPeriod].psshSets)
                       /\ tree'.objs[tree.m_currentPeriod].psshSets[last'.info.pos + 1]
                            = IF tree.objs[tree.m_currentPeriod]
                                   .psshSets[last'.info.pos + 1].m_usageCount = 0
                              THEN Used(last'.info.cand[1])
                              ELSE Used(tree.objs[tree.m_currentPeriod]
                                          .psshSets[last'.info.pos + 1])]_vars

\* a candidate with a KID replaced the equal entry without a KID that was
\* not in use, at the second place of three
C17_Witness ==
  /\ last.op = "InsertPSSHSet"
  /\ last.info.cand # <<>>
  /\ last.info.pos = 1
  /\ Len(last.info.before) = 3
  /\ last.info.before[2].m_usageCount = 0
  /\ last.info.before[2].defaultKID_ = 0
  /\ last.info.cand[1].defaultKID_ = 9
  /\ tree.objs[tree.m_currentPeriod].psshSets[2] = Used(last.info.cand[1])
  /\ tree.objs[tree.m_currentPeriod].psshSets[3] = last.info.before[3]

\* C18: a call of RemovePSSHSet(i) leaves in every adaptation set of the
\* period the representations whose PSSHSet index is not i, in their
\* order, and changes nothing else: the adaptation sets, the PSSHSets
\* with their usage counts, the other periods and the tree.
C18_Remove ==
  [][(last'.op = "RemovePSSHSet") =>
       /\ [tree' EXCEPT !.objs = <<>>] = [tree EXCEPT !.objs = <<>>]
       /\ DOMAIN tree'.objs = DOMAIN tree.objs
       /\ \A id \in DOMAIN tree.objs \ {tree.m_currentPeriod} :
            tree'.objs[id] = tree.objs[id]
       /\ [tree'.objs[tree.m_currentPeriod] EXCEPT !.adps = <<>>]
            = [tree.objs[tree.m_currentPeriod] EXCEPT !.adps = <<>>]
       /\ Len(tree'.objs[tree.m_currentPeriod].adps)
            = Len(tree.objs[tree.m_currentPeriod].adps)
       /\ \A a \in DOMAIN tree.objs[tree.m_currentPeriod].adps :
            /\ [tree'.objs[tree.m_currentPeriod].adps[a] EXCEPT !.reps = <<>>]
                 = [tree.objs[tree.m_currentPeriod].adps[a] EXCEPT !.reps = <<>>]
            /\ tree'.objs[tree.m_currentPeriod].adps[a].reps
                 = SelectSeq(tree.objs[tree.m_currentPeriod].adps[a].reps,
                             LAMBDA r : r.m_psshSetPos # last'.info.pssh_set)]_vars

\* RemovePSSHSet(1) took the two representations of the video adaptation
\* set, which had the same Widevine key, and left the audio
C18_Witness ==
  /\ last.op = "RemovePSSHSet"
  /\ last.info.pssh_set = 1
  /\ calls = 2
  /\ tree.objs[tree.m_currentPeriod].adps[1].reps = <<>>
  /\ Len(tree.objs[tree.m_currentPeriod].adps) = 2
  /\ Len(tree.objs[tree.m_currentPeriod].adps[2].reps) = 1
  /\ tree.objs[tree.m_currentPeriod].psshSets[2].m_usageCount = 2

\* C19: after a call that went to its end for a representation that is
\* not a subtitle, every period whose timeline of that representation is
\* a block of the playlist has the duration of the representation in the
\* timescale of the period.
C19_Duration ==
  (/\ last.op \in PrepareOps
   /\ last.info.parsed
   /\ last.status \in Success
   /\ tree.objs[last.info.period].adps[last.info.adp].m_streamType # "SUBTITLE")
  => \A i \in 1..Len(tree.m_periods) :
       (\E b \in 1..Len(Blocks(last.info.dl[1])) :
          Urls(tree.objs[tree.m_periods[i]].adps[last.info.adp].reps[last.info.rep].timeline)
            = Blocks(last.info.dl[1])[b])
       => tree.objs[tree.m_periods[i]].m_duration
            = MulDiv(tree.objs[tree.m_periods[i]].adps[last.info.adp]
                       .reps[last.info.rep].m_duration,
                     tree.objs[tree.m_periods[i]].m_timescale,
                     tree.objs[tree.m_periods[i]].adps[last.info.adp]
                       .reps[last.info.rep].m_timescale)

\* the periods of a list that are in another list, in their order
Among(periods, others) ==
  SelectSeq(periods, LAMBDA id : \E i \in 1..Len(others) : others[i] = id)

\* C20: a refresh leaves the periods that stay in m_periods in the order
\* they had, puts the new periods after them, and the periods that left
\* had a sequence below the discontinuity sequence of a purge of the call.
C20_RefreshOrder ==
  [][(last'.op = "RefreshSegments" /\ last'.status # "CRASH") =>
       /\ Among(tree'.m_periods, tree.m_periods) = Among(tree.m_periods, tree'.m_periods)
       /\ \A i \in 1..Len(tree'.m_periods) :
            \A j \in (i + 1)..Len(tree'.m_periods) :
              InPeriods(tree, tree'.m_periods[j]) => InPeriods(tree, tree'.m_periods[i])
       /\ \A i \in 1..Len(tree.m_periods) :
            ~InPeriods(tree', tree.m_periods[i]) =>
              \E k \in 1..Len(last'.info.purges) :
                \E n \in 1..Len(last'.info.purges[k].before) :
                  /\ last'.info.purges[k].before[n].id = tree.m_periods[i]
                  /\ last'.info.purges[k].before[n].m_sequence
                       < last'.info.purges[k].seq]_vars

\* the place of the first key line of a playlist, after #EXTM3U, with the
\* KEYFORMAT com.apple.streamingkeydelivery that is neither METHOD=NONE
\* nor an AES-128 key with a URI; 0 when there is none
FirstUnsupported(data) ==
  LET S == {i \in 1..Len(data) :
              /\ data[i].tag = "#EXT-X-KEY"
              /\ KeyFormat(data[i]) = "com.apple.streamingkeydelivery"
              /\ KeyMethod(data[i]) # "NONE"
              /\ ~(KeyMethod(data[i]) = "AES-128" /\ data[i].c # 0)
              /\ \E j \in 1..(i - 1) : data[j].tag = "#EXTM3U"}
  IN IF S = {} THEN 0 ELSE Min(S)

\* C21: a call that parsed a playlist with a key line that is not
\* supported, and read no vector outside of its bounds before it, returns
\* FAILURE, and the period the builder was in at that line has the
\* encryption state ENCRYPTED.
C21_Unsupported ==
  [][(/\ last'.op \in PrepareOps
      /\ last'.info.parsed
      /\ FirstUnsupported(last'.info.dl[1]) # 0
      /\ ~last'.info.ub)
     => /\ last'.status = "FAILURE"
        /\ last'.info.at \in DOMAIN tree'.objs
        /\ tree'.objs[last'.info.at].m_encryptionState = "ENCRYPTED"]_vars

\* a FairPlay key in the second block of a playlist: the call returned
\* FAILURE in the second period, which is ENCRYPTED, the first is not
C21_Witness ==
  /\ last.op \in PrepareOps
  /\ last.info.parsed
  /\ ~last.info.ub
  /\ FirstUnsupported(last.info.dl[1]) > 4
  /\ last.status = "FAILURE"
  /\ last.info.at # last.info.period
  /\ tree.objs[last.info.at].m_encryptionState = "ENCRYPTED"
  /\ tree.objs[last.info.period].m_encryptionState = "UNENCRYPTED"

\* a master playlist has an #EXT-X-STREAM-INF tag without BANDWIDTH
LacksBandwidth(data) ==
  \E i \in 1..Len(data) : data[i].tag = "#EXT-X-STREAM-INF" /\ data[i].a = 0

\* C22: open() of a master playlist with an #EXT-X-STREAM-INF tag without
\* BANDWIDTH returns false and leaves the tree without a period.
C22_Bandwidth ==
  (last.op = "open" /\ last.info.dl # <<>> /\ LacksBandwidth(last.info.dl[1]))
    => (last.status = "false" /\ tree.m_periods = <<>>)

\* a thread is between taking the mutex and giving it back
Inside(t, th) == t.pc[th] \notin {"idle", "wait"}

\* the thread that takes a step
Mover(th) ==
  \/ threads'.pc[th] # threads.pc[th]
  \/ th = "fg" /\ threads'.stream # threads.stream
  \/ th = "bg" /\ threads'.list # threads.list
  \/ th = "data" /\ threads'.key # threads.key

C24_Reattached ==
  (last.op \in PrepareOps /\ last.info.lost # NULL /\ last.status # "CRASH")
    => /\ tree.m_currentPeriod = last.info.lost
       /\ tree.m_currentPeriod \in DOMAIN tree.objs
       /\ InPeriods(tree, tree.m_currentPeriod)

\* the calls of prepareRepresentation with update = true
RefreshOps == {"RefreshSegments", "RefreshLiveSegments"}

\* a playlist has, after #EXTM3U and before any key line that is not
\* supported, #EXT-X-ENDLIST or #EXT-X-PLAYLIST-TYPE:VOD
Ended(data) ==
  \E i \in 1..Len(data) :
    /\ \/ data[i].tag = "#EXT-X-ENDLIST"
       \/ data[i].tag = "#EXT-X-PLAYLIST-TYPE" /\ data[i].a = 1
    /\ \E j \in 1..(i - 1) : data[j].tag = "#EXTM3U"
    /\ FirstUnsupported(data) \notin 1..i

\* refresh and time-shift buffer are off
Disabled(t) == ~t.m_refreshPlayList /\ ~t.has_timeshift_buffer_

Timelines(t) ==
  [id \in DOMAIN t.objs |->
     [a \in DOMAIN t.objs[id].adps |->
        [r \in DOMAIN t.objs[id].adps[a].reps |-> t.objs[id].adps[a].reps[r].timeline]]]

\* C25: a call that parsed a playlist with #EXT-X-ENDLIST or
\* #EXT-X-PLAYLIST-TYPE:VOD leaves refresh and time-shift buffer off; they
\* stay off; and a call of RefreshSegments or RefreshLiveSegments made
\* while they are off returns at once, the tree as it was: a thread is in
\* prepareRepresentation with refresh off only in the call of
\* RefreshLiveSegments that parsed the ended playlist.
C25_Ended ==
  [][/\ (/\ last'.op \in PrepareOps \cup RefreshOps
         /\ last'.status # "SKIPPED"
         /\ last'.info.parsed
         /\ Ended(last'.info.dl[1])
         /\ last'.status # "CRASH") => Disabled(tree')
     /\ (Disabled(tree) /\ tree.m_periods # <<>>) => Disabled(tree')
     /\ \A th \in {"fg", "bg"} :
          (Disabled(tree) /\ threads.pc[th] = "locked" /\ threads'.pc[th] # "locked")
            => /\ threads'.pc[th] = "returned"
               /\ last'.status = "SKIPPED"
               /\ tree' = tree
     /\ (last'.op \in RefreshOps /\ Disabled(tree) /\ Timelines(tree') # Timelines(tree))
          => /\ last'.op = "RefreshLiveSegments"
             /\ last.op = "RefreshLiveSegments"
             /\ last.info.parsed
             /\ Ended(last.info.dl[1])]_vars

\* the update thread parsed an ended playlist for an enabled
\* representation, and its next call of RefreshLiveSegments, made with
\* the representation still enabled, returned at once
C25_Witness ==
  /\ last.op = "RefreshLiveSegments"
  /\ last.status = "SKIPPED"
  /\ Disabled(tree)
  /\ calls = 2
  /\ threads.pc["bg"] = "returned"
  /\ RefreshList(tree.objs[tree.m_currentPeriod]) # <<>>
  /\ \E s \in Streams :
       /\ tree.objs[tree.m_currentPeriod].adps[s[1]].reps[s[2]].m_isEnabled
       /\ tree.objs[tree.m_currentPeriod].adps[s[1]].reps[s[2]].m_isDownloaded
       /\ tree.objs[tree.m_currentPeriod].adps[s[1]].reps[s[2]].timeline # <<>>

\* the key of the PSSHSet that OnDataArrived resolves
ResolvedKid == KidOf(tree.objs[tree.m_currentPeriod], threads.key.psshSet)

\* the GETs and renewals of a call of OnDataArrived so far
KeyFetches ==
  /\ Len(threads.key.got) <= 2
  /\ Len(threads.key.renewed) <= 1
  /\ threads.key.renewed # <<>> =>
       (threads.key.token # 0 /\ threads.key.got # <<>> /\ ~threads.key.got[1])
  /\ Len(threads.key.got) = 2 => threads.key.renewed = <<TRUE>>
  /\ (threads.key.got # <<>> /\ ~threads.key.got[Len(threads.key.got)])
       => ResolvedKid = KID_0
  /\ threads.pc["data"] = "get" =>
       \/ threads.key.got = <<>> /\ ResolvedKid = 0
       \/ threads.key.got = <<FALSE>> /\ threads.key.renewed = <<TRUE>>
  /\ threads.pc["data"] = "renew" =>
       (threads.key.got = <<FALSE>> /\ threads.key.renewed = <<>>
          /\ threads.key.token # 0)
  /\ (threads.pc["data"] = "resolved" /\ threads.key.got = <<FALSE>>
         /\ threads.key.token # 0) => Len(threads.key.renewed) = 1

\* C26: OnDataArrived, resolving an empty key, makes at most two GETs and
\* one renewal of the license: a failed GET leaves the key "0", the
\* license is renewed only after a first failed GET and with a fifth
\* field in the license key, a second GET is made only after a renewal
\* that returned true, and the call comes to its end.
C26_KeyFetch ==
  /\ [](threads.pc["data"] \in {"get", "renew", "resolved"} => KeyFetches)
  /\ (threads.pc["data"] = "locked") ~> (threads.pc["data"] = "idle")

\* two failed GETs around a renewal that returned true: the key is "0"
C26_Witness ==
  /\ last.op = "OnDataArrived"
  /\ last.status = "ZEROS"
  /\ last.info.got = <<FALSE, FALSE>>
  /\ last.info.renewed = <<TRUE>>
  /\ last.info.token = 1
  /\ threads.pc["data"] = "idle"
  /\ KidOf(tree.objs[tree.m_currentPeriod], last.info.psshSet) = KID_0

\* the place of the first key line with METHOD=NONE of a playlist that
\* follows an AES-128 key with a URI; 0 when there is none
NoneAfterAes(data) ==
  LET S == {i \in 1..Len(data) :
              /\ data[i].tag = "#EXT-X-KEY"
              /\ KeyMethod(data[i]) = "NONE"
              /\ \E j \in 1..(i - 1) :
                    /\ data[j].tag = "#EXT-X-KEY"
                    /\ KeyMethod(data[j]) = "AES-128"
                    /\ data[j].c # 0}
  IN IF S = {} THEN 0 ELSE Min(S)

\* the number of segments of a playlist up to a place
SegmentsUpTo(data, i) == Cardinality({j \in 1..i : data[j].tag = "URI"})

\* C27: after a call that parsed a playlist of one period with
\* METHOD=NONE after an AES-128 key, the segments that follow the line
\* have the PSSH index 0, and the key's PSSHSet is used by the segments
\* before the line only.
C27_ClearAfterNone ==
  (/\ last.op \in PrepareOps
   /\ last.status \in Success
   /\ last.info.parsed
   /\ ~last.info.ub
   /\ last.info.discontCount = 0
   /\ NoneAfterAes(last.info.dl[1]) # 0)
  => LET data == last.info.dl[1]
         before == SegmentsUpTo(data, NoneAfterAes(data))
         timeline == EntryRep(tree, last.info).timeline
     IN /\ \A k \in (before + 1)..Len(timeline) :
              timeline[k].pssh_set_ = PSSHSET_POS_DEFAULT
        /\ \A i \in 2..Len(tree.objs[last.info.period].psshSets) :
              tree.objs[last.info.period].psshSets[i].pssh_ # 0
                => tree.objs[last.info.period].psshSets[i].m_usageCount <= before

\* the places of the #EXT-X-DISCONTINUITY lines of a playlist, after
\* #EXTM3U, with no segment between the line and the discontinuity before
\* it, or the start of the playlist
NoSegmentBefore(data) ==
  {i \in 1..Len(data) :
     /\ data[i].tag = "#EXT-X-DISCONTINUITY"
     /\ \E j \in 1..(i - 1) : data[j].tag = "#EXTM3U"
     /\ \A j \in 1..(i - 1) :
          data[j].tag = "URI"
            => \E k \in (j + 1)..(i - 1) : data[k].tag = "#EXT-X-DISCONTINUITY"}

RECURSIVE WithoutLines(_, _, _)
\* a playlist without the lines at the places given
WithoutLines(data, places, i) ==
  IF i > Len(data) THEN <<>>
  ELSE (IF i \in places THEN <<>> ELSE <<data[i]>>) \o WithoutLines(data, places, i + 1)

\* C28: a call that parsed a playlist with an #EXT-X-DISCONTINUITY where
\* no segment was collected returns what it returns for the playlist
\* without that line: the same status, the same tree (periods, sequences,
\* start numbers and the PTS of the segments), the same count of
\* discontinuities and the builder in the same period.
C28_Ignored ==
  [][(/\ last'.op \in PrepareOps
      /\ last'.info.parsed
      /\ NoSegmentBefore(last'.info.dl[1]) # {})
     => \E o \in Outcomes(last'.info.period, last'.info.adp, last'.info.rep,
                          last'.info.update,
                          <<WithoutLines(last'.info.dl[1],
                                         NoSegmentBefore(last'.info.dl[1]), 1)>>) :
          /\ o.tree = tree'
          /\ o.status = last'.status
          /\ o.info.discontCount = last'.info.discontCount
          /\ o.info.at = last'.info.at
          /\ o.info.purges = last'.info.purges]_vars

\* a playlist with a discontinuity before its first segment and two
\* between its segments: two periods, one discontinuity counted, the
\* second period starts at the number after the first
C28_Witness ==
  /\ last.op \in PrepareOps
  /\ last.info.parsed
  /\ last.status \in Success
  /\ Cardinality(NoSegmentBefore(last.info.dl[1])) = 2
  /\ last.info.discontCount = 1
  /\ Len(tree.m_periods) = 2
  /\ tree.objs[tree.m_periods[1]].adps[last.info.adp].reps[last.info.rep].m_startNumber = 1
  /\ tree.objs[tree.m_periods[2]].adps[last.info.adp].reps[last.info.rep].m_startNumber = 2
  /\ tree.objs[tree.m_periods[2]].adps[last.info.adp].reps[last.info.rep]
        .timeline[1].startPTS_ = 0

\* C29: after every call, the PSSH index of every segment of every
\* representation is below the length of the PSSHSets of its period, and
\* no call of the builder has counted a use outside of a period's table.
C29_SegmentIndex ==
  /\ (last.op \in PrepareOps /\ last.info.parsed) => ~last.info.ub
  /\ ~crashed =>
       \A x \in AllReps(tree) :
         \A k \in DOMAIN tree.objs[x[1]].adps[x[2]].reps[x[3]].timeline :
           tree.objs[x[1]].adps[x[2]].reps[x[3]].timeline[k].pssh_set_
             < Len(tree.objs[x[1]].psshSets)

\* the periods a purge of a call left in m_periods
LeftBy(purge) ==
  {n \in 1..Len(purge.before) : ~(purge.before[n].m_sequence < purge.seq)}

\* C30: every #EXT-X-DISCONTINUITY-SEQUENCE line of a call that took
\* periods out of m_periods left at least one period in it.
C30_PurgeLeaves ==
  (last.op \in PrepareOps /\ last.info.parsed)
    => \A k \in 1..Len(last.info.purges) :
         LeftBy(last.info.purges[k]) # 1..Len(last.info.purges[k].before)
           => LeftBy(last.info.purges[k]) # {}

\* the key lines of a playlist that intern a PSSHSet: AES-128 with a URI,
\* or the Widevine KEYFORMAT with a URI
KeyLines(data) ==
  {data[i] : i \in {i \in 1..Len(data) :
     /\ data[i].tag = "#EXT-X-KEY"
     /\ ProcessEncryption(tree, BASE_URL, data[i]).type \in {"AES128", "WIDEVINE"}}}

\* the PSSH, the default KID and the IV a key line's own attributes give:
\* the URI, the KEYID or else the KID in the PSSH payload, and the IV
OwnPssh(l) ==
  IF KeyMethod(l) = "AES-128"
  THEN (IF IsUrlRelative(l.c) THEN UrlJoin(BASE_URL, l.c) ELSE l.c)
  ELSE DataUriPayload(l.c)

OwnKID(l) ==
  IF KeyMethod(l) = "AES-128" THEN 0
  ELSE IF l.d # 0 THEN HexKID(l.d)
  ELSE DecodedKID(DataUriPayload(l.c))

OwnIV(l) == ConvertIV(l.e)

\* C31: every PSSHSet of a period but the empty one has the PSSH, the
\* default KID and the IV that the attributes of one key line of the
\* playlists give.
C31_OwnAttributes ==
  ~crashed =>
    \A id \in DOMAIN tree.objs :
      \A i \in 2..Len(tree.objs[id].psshSets) :
        \E d \in KeyPlaylists :
          \E l \in KeyLines(d) :
            /\ tree.objs[id].psshSets[i].pssh_ = OwnPssh(l)
            /\ tree.objs[id].psshSets[i].defaultKID_ = OwnKID(l)
            /\ tree.objs[id].psshSets[i].iv = OwnIV(l)

====
